---- MODULE Spec2Model ----
(***************************************************************************)
(* Model of the derivation and normalisation core of the PCF dashboard:    *)
(*   data/aggregator.py      compute_creation_redemption,                  *)
(*                           aggregate_by_category, _resolve_codes         *)
(*   data/parser_futures.py  normalize_futures, _classify_futures_type,    *)
(*                           _extract_contract_month                       *)
(*   data/aggregator.py      compute_futures_exposure, aggregate_nav_total *)
(*   data/storage.py         append_daily, save_timeseries,                *)
(*                           update_etf_master, load_etf_master            *)
(*   models.py               PCFRecord.nav_per_unit                        *)
(*                                                                         *)
(* Numbers.  pandas works on float64 columns.  A column value is modelled  *)
(* as a pair <<n, d>>: d > 0 is the exact rational n/d in lowest terms,    *)
(* <<0, 0>> is the missing value (NaN / None), <<1, 0>> and <<-1, 0>> are  *)
(* +inf and -inf.  Rounding of float64 is not modelled.                    *)
(***************************************************************************)
EXTENDS Integers, Sequences, FiniteSets, TLC

VARIABLES
    ts,       \* the etf_timeseries table handed to compute_creation_redemption;
              \* for compute_futures_exposure and the other entry points a
              \* table with its set of columns
    cr,       \* the table compute_creation_redemption returned
    phase,    \* "input": table being loaded; "derived": cr holds the result;
              \* "flows": cr is being supplied; "aggregated": daily holds the results
    master,   \* the ETF master table handed to aggregate_by_category
    daily,    \* category |-> the table aggregate_by_category returned for it;
              \* for a single entry-point call, what the call returned or raised
    leg,      \* the futures row a parser read: name cell, quantity, market value
              \* and the vendor's "Future multiplier" cell
    fp,       \* the FuturesPosition normalize_futures returned for leg
    csvrow,   \* the CSV row handed to _is_futures_row: a list of cells
    verdict,  \* what _is_futures_row returned for csvrow
    pcftext,  \* the text handed to parse_pcf: its lines, each a list of cells
    pcftag,   \* the provider tag handed to parse_pcf with pcftext
    curdate,  \* what date.today() returns now
    calls,    \* the parse_pcf calls made on pcftext so far: what each did, and
              \* which list object its record's futures_positions is; for the
              \* stores, the append_daily or update_etf_master calls so far
    allocated, \* the number of list objects created so far
    remote,   \* the etf_timeseries (or etf_master) object in R2: Absent or
              \* Kept(table)
    localfile, \* the local etf_timeseries.parquet (or etf_master.csv): Absent
              \* or Kept(table)
    batch     \* the table handed to append_daily or update_etf_master

vars == <<ts, cr, phase, master, daily, leg, fp, csvrow, verdict,
          pcftext, pcftag, curdate, calls, allocated, remote, localfile, batch>>

\* the variables of the flow and futures-name operations
flowVars == <<ts, cr, master, daily, leg, fp>>

\* the variables of the PCF file operations
pcfVars == <<csvrow, verdict, pcftext, pcftag, curdate, calls, allocated>>

\* the variables of the time-series store
storeVars == <<remote, localfile, batch>>

\* the variables of parse_pcf
parseVars == <<pcftext, pcftag, curdate, calls, allocated>>

-----------------------------------------------------------------------------
(* float64 values                                                           *)

Null == <<0, 0>>
PosInf == <<1, 0>>
NegInf == <<-1, 0>>

Abs(n) == IF n < 0 THEN -n ELSE n

RECURSIVE Gcd(_, _)
Gcd(a, b) == IF b = 0 THEN a ELSE Gcd(b, a % b)

\* n/d (d # 0) in lowest terms with a positive denominator
Rat(n, d) ==
    LET g == Gcd(Abs(n), Abs(d))
        s == IF d < 0 THEN -1 ELSE 1
    IN  <<(s * n) \div g, (s * d) \div g>>

Num(n) == <<n, 1>>

IsNull(x) == x = Null
IsFinite(x) == x[2] > 0

\* float subtraction as Series.diff applies it to shares_outstanding
FSub(a, b) ==
    IF IsFinite(a) /\ IsFinite(b)
    THEN Rat(a[1] * b[2] - b[1] * a[2], a[2] * b[2])
    ELSE Null

\* float division of two columns: x/0 is +-inf, 0/0 and NaN operands give NaN
FDiv(a, b) ==
    IF ~IsFinite(a) \/ ~IsFinite(b) THEN Null
    ELSE IF b[1] = 0
         THEN (IF a[1] > 0 THEN PosInf ELSE IF a[1] < 0 THEN NegInf ELSE Null)
         ELSE Rat(a[1] * b[2], a[2] * b[1])

\* float multiplication; a missing operand gives a missing product
FMul(a, b) ==
    IF IsFinite(a) /\ IsFinite(b) THEN Rat(a[1] * b[1], a[2] * b[2]) ELSE Null

FAdd(a, b) ==
    IF IsFinite(a) /\ IsFinite(b)
    THEN Rat(a[1] * b[2] + b[1] * a[2], a[2] * b[2])
    ELSE Null

-----------------------------------------------------------------------------
(* The input table: rows (etf_code, date, nav, shares_outstanding).  The     *)
(* store keeps one row per (etf_code, date), so keys are unique.             *)

\* ETF codes present in the table, in the order string comparison gives them
Codes == <<"1306", "1321", "1568">>
CodeSet == {Codes[i] : i \in 1..Len(Codes)}
CodeRank(c) == CHOOSE i \in 1..Len(Codes) : Codes[i] = c

MaxRows == 3
Dates == 1..3

\* (nav, shares_outstanding) of a record; either may be missing, shares may be 0
RowVals ==
    { <<Num(12), Num(2)>>, <<Num(12), Num(3)>>, <<Num(12), Num(0)>>,
      <<Num(12), Null>>, <<Null, Num(3)>>, <<Num(0), Num(0)>> }

InputRow(c, d, v) ==
    [etf_code |-> c, date |-> d, nav |-> v[1], shares_outstanding |-> v[2]]

AllRows == { InputRow(c, d, v) : c \in {Codes[1], Codes[2]}, d \in Dates, v \in RowVals }

\* the worked series: shares [100, 120, 120, 90], per-unit NAV [10, 11, 12, 13]
ExampleRows ==
    { InputRow("1306", 1, <<Num(1000), Num(100)>>),
      InputRow("1306", 2, <<Num(1320), Num(120)>>),
      InputRow("1306", 3, <<Num(1440), Num(120)>>),
      InputRow("1306", 4, <<Num(1170), Num(90)>>) }

Range(s) == { s[i] : i \in 1..Len(s) }

SameKey(a, b) == a.etf_code = b.etf_code /\ a.date = b.date

\* order of sort_values(["etf_code", "date"])
KeyLess(a, b) ==
    \/ CodeRank(a.etf_code) < CodeRank(b.etf_code)
    \/ a.etf_code = b.etf_code /\ a.date < b.date

SortByCodeDate(t) ==
    [i \in 1..Len(t) |->
        CHOOSE r \in Range(t) : Cardinality({q \in Range(t) : KeyLess(q, r)}) = i - 1]

-----------------------------------------------------------------------------
(* compute_creation_redemption                                              *)

\* mutant: the infinities are left in the column
ReplaceInf_Skipped(x) == x

\* df["nav_per_unit"].replace([inf, -inf], None)
ReplaceInf(x) == IF x = PosInf \/ x = NegInf THEN Null ELSE x

\* df["nav"] / df["shares_outstanding"], infinities replaced
NavPerUnit(r) == ReplaceInf(FDiv(r.nav, r.shares_outstanding))

\* is row i of the sorted table preceded by a row of the same group
HasPrev(s, i) == i > 1 /\ s[i - 1].etf_code = s[i].etf_code

\* groupby("etf_code")["shares_outstanding"].diff()
SharesChange(s, i) ==
    IF HasPrev(s, i)
    THEN FSub(s[i].shares_outstanding, s[i - 1].shares_outstanding)
    ELSE Null

\* mutant: the flow is priced off the same day's per-unit NAV (no shift)
NavPerUnitPrev_SameDay(s, i) == IF HasPrev(s, i) THEN NavPerUnit(s[i]) ELSE Null

\* groupby("etf_code")["nav_per_unit"].shift(1)
NavPerUnitPrev(s, i) == IF HasPrev(s, i) THEN NavPerUnit(s[i - 1]) ELSE Null

\* df["shares_change"] * df["nav_per_unit_prev"]
FlowAmount(s, i) == FMul(SharesChange(s, i), NavPerUnitPrev(s, i))

\* the lambda of lines 64-67; Python None is the type "none"
FlowType(x) ==
    IF ~IsNull(x) /\ x[1] > 0 THEN "creation"
    ELSE IF ~IsNull(x) /\ x[1] < 0 THEN "redemption"
    ELSE "none"

\* the columns of one row of the returned frame
CrRow(s, i) ==
    [ etf_code           |-> s[i].etf_code,
      date               |-> s[i].date,
      shares_outstanding |-> s[i].shares_outstanding,
      shares_change      |-> SharesChange(s, i),
      nav_per_unit       |-> NavPerUnit(s[i]),
      flow_amount        |-> FlowAmount(s, i),
      flow_type          |-> FlowType(SharesChange(s, i)) ]

\* mutant: the first day is not dropped
KeepRow_All(s, i) == TRUE

\* df[df["shares_change"].notna()]
KeepRow(s, i) == ~IsNull(SharesChange(s, i))

RECURSIVE FilterRows(_, _)
FilterRows(s, i) ==
    IF i > Len(s) THEN <<>>
    ELSE (IF KeepRow(s, i) THEN <<CrRow(s, i)>> ELSE <<>>) \o FilterRows(s, i + 1)

compute_creation_redemption(df) ==
    IF df = <<>> THEN <<>>
    ELSE FilterRows(SortByCodeDate(df), 1)

-----------------------------------------------------------------------------
(* config.py: category -> code list                                         *)

TOPIX_PLAIN_CODES ==
    {"1305", "1306", "1308", "1348", "1473", "1475", "2524", "2557", "2625"}
TOPIX_LEV_CODES == {"1568", "1367"}
TOPIX_INV_CODES == {"1569", "1457", "1356", "1368"}
TOPIX_LEVINV_CODES == TOPIX_LEV_CODES \cup TOPIX_INV_CODES
NIKKEI225_PLAIN_CODES ==
    {"1320", "1321", "1329", "1330", "1346", "1369", "1397", "1578", "2525",
     "2624", "473A"}
NIKKEI225_LEV_CODES == {"1358", "1365", "1458", "1570", "1579"}
NIKKEI225_INV_CODES == {"1456", "1571", "1580", "1357", "1360", "1366", "1459"}
NIKKEI225_LEVINV_CODES == NIKKEI225_LEV_CODES \cup NIKKEI225_INV_CODES
TOPIX_ETF_CODES == TOPIX_PLAIN_CODES \cup TOPIX_LEVINV_CODES
NIKKEI225_ETF_CODES == NIKKEI225_PLAIN_CODES \cup NIKKEI225_LEVINV_CODES

CATEGORY_CODE_MAP ==
    [ topix            |-> TOPIX_PLAIN_CODES,
      topix_lev        |-> TOPIX_LEV_CODES,
      topix_inv        |-> TOPIX_INV_CODES,
      topix_levinv     |-> TOPIX_LEVINV_CODES,
      topix_all        |-> TOPIX_ETF_CODES,
      nikkei225        |-> NIKKEI225_PLAIN_CODES,
      nikkei225_lev    |-> NIKKEI225_LEV_CODES,
      nikkei225_inv    |-> NIKKEI225_INV_CODES,
      nikkei225_levinv |-> NIKKEI225_LEVINV_CODES,
      nikkei225_all    |-> NIKKEI225_ETF_CODES ]

-----------------------------------------------------------------------------
(* aggregate_by_category                                                    *)

\* master_df: None, or a table of (code, category) rows
NoMaster == [given |-> FALSE, rows |-> <<>>]
MasterOf(rows) == [given |-> TRUE, rows |-> rows]

\* cr_df["etf_code"].unique()
CodesIn(t) == { t[i].etf_code : i \in 1..Len(t) }

\* mutant: "all" resolves to the default category's list
resolve_codes_AllIsTopix(category, cr_df, master_df) ==
    IF category \in DOMAIN CATEGORY_CODE_MAP THEN CATEGORY_CODE_MAP[category]
    ELSE IF category = "all" THEN CATEGORY_CODE_MAP["topix"]
    ELSE IF master_df.given /\ master_df.rows # <<>>
         THEN { master_df.rows[i].code :
                    i \in { j \in 1..Len(master_df.rows) : master_df.rows[j].category = category } }
    ELSE CodesIn(cr_df)

\* _resolve_codes; the list is only used for membership, so it is a set here
resolve_codes(category, cr_df, master_df) ==
    IF category \in DOMAIN CATEGORY_CODE_MAP THEN CATEGORY_CODE_MAP[category]
    ELSE IF category = "all" THEN CodesIn(cr_df)
    ELSE IF master_df.given /\ master_df.rows # <<>>
         THEN { master_df.rows[i].code :
                    i \in { j \in 1..Len(master_df.rows) : master_df.rows[j].category = category } }
    ELSE CodesIn(cr_df)

IsPositive(x) == IsFinite(x) /\ x[1] > 0
IsNegative(x) == IsFinite(x) /\ x[1] < 0

\* Series.sum() of the selected values of a column; the empty sum is 0
RECURSIVE SumFlows(_)
SumFlows(xs) == IF xs = <<>> THEN Num(0) ELSE FAdd(Head(xs), SumFlows(Tail(xs)))

Column(t, name) == [i \in 1..Len(t) |-> t[i][name]]

RECURSIVE CountIf(_, _)
CountIf(xs, v) ==
    IF xs = <<>> THEN 0 ELSE (IF Head(xs) = v THEN 1 ELSE 0) + CountIf(Tail(xs), v)

\* the group keys of groupby("date"), ascending (sort=True is the default)
RECURSIVE AscendingSeq(_)
AscendingSeq(S) ==
    IF S = {} THEN <<>>
    ELSE LET m == CHOOSE x \in S : \A y \in S : x <= y
         IN  <<m>> \o AscendingSeq(S \ {m})

\* one row of filtered.groupby("date").agg(...)
DailyRow(g, d) ==
    LET flows == Column(g, "flow_amount")
        types == Column(g, "flow_type")
    IN  [ date             |-> d,
          total_creation   |-> SumFlows(SelectSeq(flows, IsPositive)),
          total_redemption |-> SumFlows(SelectSeq(flows, IsNegative)),
          creation_count   |-> CountIf(types, "creation"),
          redemption_count |-> CountIf(types, "redemption") ]

GroupByDate(filtered) ==
    LET keys == AscendingSeq({ filtered[i].date : i \in 1..Len(filtered) })
    IN  [k \in 1..Len(keys) |->
            DailyRow(SelectSeq(filtered, LAMBDA r : r.date = keys[k]), keys[k])]

\* daily["total_creation"] + daily["total_redemption"]
NetFlow(row) == FAdd(row.total_creation, row.total_redemption)

\* mutant: the running total is not accumulated
CumSum_NoCarry(nets, k) == nets[k]

\* daily["net_flow"].cumsum(): entry k of the running total
RECURSIVE CumSum(_, _)
CumSum(nets, k) == IF k = 1 THEN nets[1] ELSE FAdd(CumSum(nets, k - 1), nets[k])

\* daily.sort_values("date")
SortByDate(t) ==
    [i \in 1..Len(t) |->
        CHOOSE r \in Range(t) : Cardinality({q \in Range(t) : q.date < r.date}) = i - 1]

aggregate_by_category(cr_df, category, master_df) ==
    IF cr_df = <<>> THEN <<>>
    ELSE
      LET codes == resolve_codes(category, cr_df, master_df)
          filtered == SelectSeq(cr_df, LAMBDA r : r.etf_code \in codes)
      IN  IF filtered = <<>> THEN <<>>
          ELSE
            LET grouped == GroupByDate(filtered)
                nets == [k \in 1..Len(grouped) |-> NetFlow(grouped[k])]
                withNet ==
                    [k \in 1..Len(grouped) |->
                        [ date             |-> grouped[k].date,
                          total_creation   |-> grouped[k].total_creation,
                          total_redemption |-> grouped[k].total_redemption,
                          creation_count   |-> grouped[k].creation_count,
                          redemption_count |-> grouped[k].redemption_count,
                          net_flow         |-> nets[k],
                          cumulative_flow  |-> CumSum(nets, k) ]]
            IN  SortByDate(withNet)

\* the categories a view asks for: the sidebar's, the combined ones, the "all"
\* pseudo-category, one resolved through the master and one known nowhere
ViewCategories ==
    { "topix", "topix_lev", "topix_levinv", "topix_all", "nikkei225",
      "all", "other", "reit" }

MaxObs == 3

\* (shares_change, prior per-unit NAV) of a flow observation
FlowVals == { <<Num(1), Num(6)>>, <<Num(-1), Num(4)>>, <<Num(1), Null>> }

\* a row as compute_creation_redemption emits it
FlowObs(c, d, v) ==
    [ etf_code           |-> c,
      date               |-> d,
      shares_outstanding |-> Num(3),
      shares_change      |-> v[1],
      nav_per_unit       |-> Num(4),
      flow_amount        |-> FMul(v[1], v[2]),
      flow_type          |-> FlowType(v[1]) ]

AllFlowObs == { FlowObs(c, d, v) : c \in CodeSet, d \in Dates, v \in FlowVals }

Masters ==
    { NoMaster,
      MasterOf(<<>>),
      MasterOf(<< [code |-> "1306", category |-> "topix"],
                  [code |-> "1321", category |-> "other"],
                  [code |-> "1568", category |-> "other"] >>),
      MasterOf(<< [code |-> "1568", category |-> "other"] >>) }

-----------------------------------------------------------------------------
(* parser_futures.py: text and regular expressions                          *)
(* A str is a sequence of one-character strings.  The two mojibake          *)
(* characters of line 169 are written "U+30FB" and "U+FF7D".                *)

Digits == {"0", "1", "2", "3", "4", "5", "6", "7", "8", "9"}
UpperLetters ==
    <<"A", "B", "C", "D", "E", "F", "G", "H", "I", "J", "K", "L", "M",
      "N", "O", "P", "Q", "R", "S", "T", "U", "V", "W", "X", "Y", "Z">>
LowerLetters ==
    <<"a", "b", "c", "d", "e", "f", "g", "h", "i", "j", "k", "l", "m",
      "n", "o", "p", "q", "r", "s", "t", "u", "v", "w", "x", "y", "z">>
Letters == Range(UpperLetters) \cup Range(LowerLetters)

\* \s
Space == {" ", "\t"}

\* \w: letters, digits, underscore; U+FF7D (a katakana letter) is a word
\* character, U+30FB (a middle dot) is not
WordChars == Letters \cup Digits \cup {"_", "U+FF7D"}

\* str.upper() of one character; re.IGNORECASE compares characters this way
Upper(c) ==
    IF c \in Range(LowerLetters)
    THEN UpperLetters[CHOOSE i \in 1..Len(LowerLetters) : LowerLetters[i] = c]
    ELSE c

UpperStr(s) == [i \in 1..Len(s) |-> Upper(s[i])]

\* one regex item: a character set repeated lo..hi times (hi = -1: no upper
\* limit), or a zero-width assertion
Item(cs, lo, hi) == [kind |-> "set", cs |-> cs, lo |-> lo, hi |-> hi]
Ch(c) == Item({c}, 1, 1)
Opt(c) == Item({c}, 0, 1)
Sp0 == Item(Space, 0, -1)
Sp1 == Item(Space, 1, -1)
Dig(n) == Item(Digits, n, n)
WordBoundary == [kind |-> "wb", cs |-> {}, lo |-> 0, hi |-> 0]
NotAfterDigit == [kind |-> "nlb", cs |-> {}, lo |-> 0, hi |-> 0]
NotBeforeDigit == [kind |-> "nla", cs |-> {}, lo |-> 0, hi |-> 0]
\* (w1|w2|...): an alternation of three-letter words
OneOfWords(ws) == [kind |-> "words", cs |-> ws, lo |-> 3, hi |-> 3]

\* a literal, character by character
Lit(w) == [i \in 1..Len(w) |-> Ch(w[i])]

\* s[a..b]
Slice(s, a, b) == [i \in 1..(b - a + 1) |-> s[a + i - 1]]

IsWordAt(s, i) == i >= 1 /\ i <= Len(s) /\ s[i] \in WordChars
IsDigitAt(s, i) == i >= 1 /\ i <= Len(s) /\ s[i] \in Digits

\* do items k.. match s from position i on (the match may end anywhere);
\* fold: compare case-insensitively
RECURSIVE MatchFrom(_, _, _, _, _)
MatchFrom(items, k, s, i, fold) ==
    IF k > Len(items) THEN TRUE
    ELSE
      LET it == items[k]
      IN  CASE it.kind = "wb"  -> (IsWordAt(s, i - 1) # IsWordAt(s, i))
                                  /\ MatchFrom(items, k + 1, s, i, fold)
            [] it.kind = "nlb" -> ~IsDigitAt(s, i - 1) /\ MatchFrom(items, k + 1, s, i, fold)
            [] it.kind = "nla" -> ~IsDigitAt(s, i) /\ MatchFrom(items, k + 1, s, i, fold)
            [] it.kind = "end" -> i = Len(s) + 1 /\ MatchFrom(items, k + 1, s, i, fold)
            [] it.kind = "words" ->
                /\ i + 2 <= Len(s)
                /\ (IF fold THEN UpperStr(Slice(s, i, i + 2)) ELSE Slice(s, i, i + 2)) \in it.cs
                /\ MatchFrom(items, k + 1, s, i + 3, fold)
            [] it.lo = 1 /\ it.hi = 1 ->
                /\ i <= Len(s)
                /\ (IF fold THEN Upper(s[i]) ELSE s[i]) \in it.cs
                /\ MatchFrom(items, k + 1, s, i + 1, fold)
            [] OTHER ->
                LET left == Len(s) - i + 1
                    top  == IF it.hi < 0 \/ it.hi > left THEN left ELSE it.hi
                IN  \E n \in it.lo..top :
                        /\ \A j \in 0..(n - 1) :
                              (IF fold THEN Upper(s[i + j]) ELSE s[i + j]) \in it.cs
                        /\ MatchFrom(items, k + 1, s, i + n, fold)

\* a pattern is the set of its alternatives, each a sequence of items
MatchAt(pat, s, i, fold) == \E alt \in pat : MatchFrom(alt, 1, s, i, fold)

\* the start positions of the matches of pat in s
Starts(pat, s, fold) == { i \in 1..(Len(s) + 1) : MatchAt(pat, s, i, fold) }

\* pattern.search(s)
Search(pat, s, fold) == \E i \in 1..(Len(s) + 1) : MatchAt(pat, s, i, fold)

SetMin(S) == CHOOSE x \in S : \A y \in S : x <= y

RECURSIVE StripLeft(_)
StripLeft(s) == IF s # <<>> /\ Head(s) \in Space THEN StripLeft(Tail(s)) ELSE s

RECURSIVE StripRight(_)
StripRight(s) ==
    IF s # <<>> /\ s[Len(s)] \in Space THEN StripRight(SubSeq(s, 1, Len(s) - 1)) ELSE s

\* str.strip()
Strip(s) == StripRight(StripLeft(s))

-----------------------------------------------------------------------------
(* FUTURES_PATTERNS, in list order (all compiled with re.IGNORECASE)        *)

W_NK225 == Lit(<<"N", "K", "2", "2", "5">>)
W_NIKKEI == Lit(<<"N", "I", "K", "K", "E", "I">>)
W_MINI == Lit(<<"M", "I", "N", "I">>)
W_TOPIX == Lit(<<"T", "O", "P", "I", "X">>)
\* 225?
W_225Opt == Lit(<<"2", "2">>) \o <<Opt("5")>>
\* \s*-?\s*
SepDash == <<Sp0, Opt("-"), Sp0>>

FUTURES_PATTERNS ==
    << [pat |-> { W_NK225 \o <<Sp0>> \o Lit(<<".", "O", "P", ".", "C", "A", "L", "L">>) }, type |-> "NK225_OPTION_CALL"],
       [pat |-> { W_NK225 \o <<Sp0>> \o Lit(<<".", "O", "P", ".", "P", "U", "T">>) }, type |-> "NK225_OPTION_PUT"],
       [pat |-> { W_NK225 \o <<Sp0>> \o Lit(<<"M", "I", "C", "R", "O">>),
                  W_NIKKEI \o <<Sp0>> \o W_225Opt \o <<Sp0>> \o Lit(<<"M", "I", "C", "R", "O">>) },
        type |-> "NK225_MICRO"],
       [pat |-> { Lit(<<"2", "2", "5">>) \o SepDash \o W_MINI }, type |-> "NK225_MINI"],
       [pat |-> { W_NIKKEI \o <<Sp0>> \o W_225Opt \o <<Sp0>> \o W_MINI }, type |-> "NK225_MINI"],
       [pat |-> { W_NK225 \o <<Sp0>> \o W_MINI }, type |-> "NK225_MINI"],
       [pat |-> { W_MINI \o SepDash \o Lit(<<"N", "K">>) \o <<Sp0>> \o Lit(<<"2", "2", "5">>),
                  W_MINI \o SepDash \o W_NIKKEI \o <<Sp0>> \o Lit(<<"2", "2", "5">>) },
        type |-> "NK225_MINI"],
       [pat |-> { W_NK225 }, type |-> "NK225"],
       [pat |-> { W_NIKKEI \o <<Sp0>> \o Lit(<<"2", "2", "5">>) }, type |-> "NK225"],
       [pat |-> { W_MINI \o SepDash \o W_TOPIX,
                  W_MINI \o SepDash \o Lit(<<"T", "P", "X">>) },
        type |-> "MINI_TOPIX"],
       [pat |-> { W_TOPIX \o <<Sp0>> \o W_MINI,
                  W_TOPIX \o <<Sp0>> \o Lit(<<"I", "N", "D", "X">>) \o <<Sp0>> \o W_MINI },
        type |-> "MINI_TOPIX"],
       [pat |-> { W_TOPIX \o <<Sp0>> \o Lit(<<"B", "A", "N", "K">>) \o <<Opt("S"), Sp0>>,
                  W_TOPIX \o <<Sp0>> \o Lit(<<"B", "A", "N", "K">>) \o <<Opt("S"), Sp0>> \o Lit(<<"I", "N", "D", "E", "X">>) },
        type |-> "TOPIX_BANKS"],
       [pat |-> { W_TOPIX \o <<Sp0>> \o Lit(<<"C", "O", "R", "E">>) \o <<Sp0>> \o Lit(<<"3", "0">>) },
        type |-> "TOPIX_CORE30"],
       [pat |-> { W_TOPIX }, type |-> "TOPIX"],
       [pat |-> { Lit(<<"J", "P", "X">>) \o SepDash \o W_NIKKEI \o <<Sp0>> \o Lit(<<"4", "0", "0">>),
                  Lit(<<"J", "P", "X">>) \o SepDash \o W_NIKKEI \o <<Sp0>> \o Lit(<<"I", "N", "D", "E", "X">>) \o <<Sp0>>
                      \o Lit(<<"4", "0", "0">>),
                  Lit(<<"N", "K", "4", "0", "0">>),
                  Lit(<<"J", "P", "X", "N", "I", "K", "K", "E", "I">>) \o <<Sp0>> \o Lit(<<"4", "0", "0">>) },
        type |-> "JPX400"],
       [pat |-> { Lit(<<"J", "P", "X">>) \o <<Sp0>> \o Lit(<<"P", "R", "I", "M", "E">>) \o <<Sp0>> \o Lit(<<"1", "5", "0">>) },
        type |-> "JPX_PRIME150"],
       [pat |-> { Lit(<<"T", "S", "E">>) \o SepDash \o Lit(<<"R", "E", "I", "T">>),
                  Lit(<<"T", "S", "E", "R", "E", "I", "T">>),
                  W_TOPIX \o <<Sp0>> \o Lit(<<"R", "E", "I", "T">>) },
        type |-> "TSEREIT"],
       [pat |-> { Lit(<<"T", "S", "E">>) \o <<Sp0>> \o Lit(<<"G", "R", "O", "W", "T", "H">>) }, type |-> "TSE_GROWTH"],
       [pat |-> { Lit(<<"1", "0">>) \o <<Sp0>> \o Lit(<<"Y", "E", "A", "R">>) \o <<Sp0>> \o Lit(<<"J", "G", "B">>) },
        type |-> "JGB10Y"] >>

\* mutant: the bare index rules are tried before the specific variants
FUTURES_PATTERNS_BareFirst ==
    << FUTURES_PATTERNS[8], FUTURES_PATTERNS[14] >> \o FUTURES_PATTERNS

\* the rule list _classify_futures_type walks
RuleList == FUTURES_PATTERNS

\* re.sub(r"[U+30FB U+FF7D]+", "", raw_name)
RemoveMojibake(s) == SelectSeq(s, LAMBDA c : c \notin {"U+30FB", "U+FF7D"})

RECURSIVE FirstRuleFrom(_, _, _)
FirstRuleFrom(rules, k, s) ==
    IF k > Len(rules) THEN "UNKNOWN"
    ELSE IF Search(rules[k].pat, s, TRUE) THEN rules[k].type
    ELSE FirstRuleFrom(rules, k + 1, s)

classify_futures_type(raw_name) ==
    FirstRuleFrom(RuleList, 1, Strip(RemoveMojibake(raw_name)))

-----------------------------------------------------------------------------
(* _extract_contract_month                                                  *)

MonthNames ==
    << <<"J", "A", "N">>, <<"F", "E", "B">>, <<"M", "A", "R">>, <<"A", "P", "R">>, <<"M", "A", "Y">>, <<"J", "U", "N">>,
       <<"J", "U", "L">>, <<"A", "U", "G">>, <<"S", "E", "P">>, <<"O", "C", "T">>, <<"N", "O", "V">>, <<"D", "E", "C">> >>

\* MONTH_ABBR_TO_NUM[name]
MonthNum(name) ==
    LET m == CHOOSE i \in 1..12 : MonthNames[i] = name
    IN  <<IF m >= 10 THEN "1" ELSE "0",
          (<<"0", "1", "2", "3", "4", "5", "6", "7", "8", "9">>)[(m % 10) + 1]>>

\* (JAN|FEB|...|DEC)
MonthGroup == OneOfWords(Range(MonthNames))

RE_CONTRACT_YYMM == { <<WordBoundary, Dig(4), WordBoundary>> }
RE_CONTRACT_MMM_YYYY ==
    { <<WordBoundary, MonthGroup, Item(Space \cup {"."}, 1, 1), Dig(4), WordBoundary>> }
RE_CONTRACT_MMM_YY ==
    { <<WordBoundary, MonthGroup, Sp1, Dig(2), WordBoundary>> }
RE_CONTRACT_YYYYMM ==
    { <<NotAfterDigit>> \o Lit(<<"2", "0">>) \o <<Dig(4), NotBeforeDigit>> }
RE_OPTION_MONTH == { <<Ch("."), MonthGroup, Ch("."), Dig(4), Ch(".")>> }

DigitVal(c) == CHOOSE v \in 0..9 : (<<"0", "1", "2", "3", "4", "5", "6", "7", "8", "9">>)[v + 1] = c

\* int() of a two-digit string
Int2(s) == 10 * DigitVal(s[1]) + DigitVal(s[2])

\* the contract month is None: written as the empty sequence
NoMonth == <<>>

\* lines 122-126: group(2)[2:] + month number; the match starts at the dot
OptionMonthAt(s, i) == Slice(s, i + 7, i + 8) \o MonthNum(UpperStr(Slice(s, i + 1, i + 3)))

\* lines 129-133; the match starts at the month name
MmmYyyyAt(s, i) == Slice(s, i + 6, i + 7) \o MonthNum(UpperStr(Slice(s, i, i + 2)))

\* lines 136-140: the two digits follow the whitespace after the month name
MmmYyAt(s, i) ==
    LET j == SetMin({ k \in (i + 4)..Len(s) : s[k] \notin Space })
    IN  Slice(s, j, j + 1) \o MonthNum(UpperStr(Slice(s, i, i + 2)))

\* lines 143-146: yyyymm[2:]
YyyymmAt(s, i) == Slice(s, i + 2, i + 5)

\* mutant: every four-digit candidate is accepted
YymmInRange_Any(c) == TRUE

\* line 154: 20 <= yy <= 35 and 1 <= mm <= 12
YymmInRange(c) ==
    /\ 20 <= Int2(Slice(c, 1, 2)) /\ Int2(Slice(c, 1, 2)) <= 35
    /\ 1 <= Int2(Slice(c, 3, 4)) /\ Int2(Slice(c, 3, 4)) <= 12

\* lines 150-157: the first accepted candidate, in the order of findall
YymmFirstAccepted(s) ==
    LET ok == { i \in Starts(RE_CONTRACT_YYMM, s, FALSE) : YymmInRange(Slice(s, i, i + 3)) }
    IN  IF ok = {} THEN NoMonth ELSE Slice(s, SetMin(ok), SetMin(ok) + 3)

extract_contract_month(raw_name) ==
    IF Search(RE_OPTION_MONTH, raw_name, TRUE)
    THEN OptionMonthAt(raw_name, SetMin(Starts(RE_OPTION_MONTH, raw_name, TRUE)))
    ELSE IF Search(RE_CONTRACT_MMM_YYYY, raw_name, TRUE)
    THEN MmmYyyyAt(raw_name, SetMin(Starts(RE_CONTRACT_MMM_YYYY, raw_name, TRUE)))
    ELSE IF Search(RE_CONTRACT_MMM_YY, raw_name, TRUE)
    THEN MmmYyAt(raw_name, SetMin(Starts(RE_CONTRACT_MMM_YY, raw_name, TRUE)))
    ELSE IF Search(RE_CONTRACT_YYYYMM, raw_name, FALSE)
    THEN YyyymmAt(raw_name, SetMin(Starts(RE_CONTRACT_YYYYMM, raw_name, FALSE)))
    ELSE YymmFirstAccepted(raw_name)

-----------------------------------------------------------------------------
(* normalize_futures                                                        *)

\* config.FUTURES_MULTIPLIERS
FUTURES_MULTIPLIERS ==
    [ TOPIX |-> 10000, MINI_TOPIX |-> 1000, NK225 |-> 1000, NK225_MINI |-> 100,
      NK225_MICRO |-> 10, JPX400 |-> 100, TSEREIT |-> 1000, JGB10Y |-> 10000,
      TOPIX_BANKS |-> 1000, TOPIX_CORE30 |-> 10000, TSE_GROWTH |-> 1000,
      JPX_PRIME150 |-> 1000, NK225_OPTION_CALL |-> 1000, NK225_OPTION_PUT |-> 1000,
      UNKNOWN |-> 1 ]

\* mutant: the multiplier of the full-size contract for every type
MultiplierOf_Fixed(futures_type) == FUTURES_MULTIPLIERS["NK225_MINI"]

\* FUTURES_MULTIPLIERS.get(futures_type, 1)
MultiplierOf(futures_type) ==
    IF futures_type \in DOMAIN FUTURES_MULTIPLIERS THEN FUTURES_MULTIPLIERS[futures_type] ELSE 1

\* a Python value passed as raw_name: a str, None, or a number; text is the
\* str itself or what str() makes of the value
StrValue(text) == [type |-> "str", text |-> text, truthy |-> text # <<>>]
NoneValue == [type |-> "none", text |-> <<"N", "o", "n", "e">>, truthy |-> FALSE]
IntValue(text, nonzero) == [type |-> "int", text |-> text, truthy |-> nonzero]

FuturesPosition(raw_name, futures_type, contract_month, quantity, market_value, multiplier) ==
    [ raw_name       |-> raw_name,
      futures_type   |-> futures_type,
      contract_month |-> contract_month,
      quantity       |-> quantity,
      market_value   |-> market_value,
      multiplier     |-> multiplier ]

normalize_futures(raw_name, quantity, market_value) ==
    IF ~raw_name.truthy \/ raw_name.type # "str"
    THEN FuturesPosition(IF raw_name.truthy THEN raw_name.text ELSE <<>>,
                         "UNKNOWN", NoMonth, quantity, market_value, 1)
    ELSE LET name == Strip(raw_name.text)
             futures_type == classify_futures_type(name)
         IN  FuturesPosition(name, futures_type, extract_contract_month(name),
                             quantity, market_value, MultiplierOf(futures_type))

-----------------------------------------------------------------------------
(* The futures rows a parser meets                                          *)

\* pieces of vendor futures names; a name cell is a run of at most MaxTokens
Vocabulary ==
    { <<"N", "K", "2", "2", "5">>, <<".", "O", "P", ".", "C", "A", "L", "L">>, <<" ">>, <<" ", "M", "A", "R", ".", "2", "0", "2", "6">>, <<"M", "A", "R", " ", "2", "6">>, <<"2", "0", "2", "6", "0", "3">>,
      <<"2", "6", "0", "3">>, <<"2", "4", "1", "1">>, <<"9", "9", "1", "3">>, <<".", "F", "E", "B", ".", "2", "0", "2", "7", ".">>, <<"m", "i", "n", "i">>, <<"T", "O", "P", "I", "X">>, <<"U+30FB">> }

MaxTokens == 3

\* longest name cell, in characters
MaxNameLen == 22

\* pieces of the names of index variants, a contract month and a six-digit
\* run; a name cell is a run of at most MaxPieces of them
VariantVocabulary ==
    { <<"N", "K", "2", "2", "5">>, <<"N", "I", "K", "K", "E", "I", " ", "2", "2", "5">>, <<"T", "O", "P", "I", "X">>, <<" ">>, <<"-">>, <<"M", "I", "N", "I">>, <<" ", "M", "I", "C", "R", "O">>, <<" ", "B", "A", "N", "K", "S">>, <<" ", "C", "O", "R", "E", "3", "0">>,
      <<" ", "R", "E", "I", "T">>, <<"T", "S", "E">>, <<".", "O", "P", ".", "P", "U", "T">>, <<" ", "2", "6", "0", "3">>, <<" ", "2", "0", "2", "6", "1", "3">> }

MaxPieces == 3

RECURSIVE Flatten(_)
Flatten(parts) == IF parts = <<>> THEN <<>> ELSE Head(parts) \o Flatten(Tail(parts))

\* cells that are not text: None, the numbers 225 and 0
NonTextCells == { NoneValue, IntValue(<<"2", "2", "5">>, TRUE), IntValue(<<"0">>, FALSE) }

\* (quantity, market value, "Future multiplier" cell) of the row
CellVals == { <<0, 0, 0>>, <<-5, 1000, 500>> }

NoPosition == FuturesPosition(<<>>, "", NoMonth, 0, 0, 0)

\* parts: the vocabulary pieces the name cell is made of
NoLeg ==
    [ parts |-> <<>>, raw |-> StrValue(<<>>), quantity |-> 0, market_value |-> 0,
      future_multiplier |-> 0 ]

-----------------------------------------------------------------------------
(* parser_pcf.py: field parsers                                             *)
(* Python's None is the empty tuple; a float is a pair as above, <<0, 0>>   *)
(* being NaN; a date is <<year, month, day>>.  The cells the model feeds    *)
(* the parsers are plain decimals, "inf", "nan" or text: float()'s exponent *)
(* and underscore forms are not among them.                                 *)

None == <<>>

NaN == <<0, 0>>

Sign(n) == IF n > 0 THEN 1 ELSE IF n < 0 THEN -1 ELSE 0

\* float * float, with the IEEE rules for inf and NaN
PyMul(a, b) ==
    IF a = NaN \/ b = NaN THEN NaN
    ELSE IF IsFinite(a) /\ IsFinite(b) THEN Rat(a[1] * b[1], a[2] * b[2])
    ELSE IF a[1] = 0 \/ b[1] = 0 THEN NaN
    ELSE <<Sign(a[1]) * Sign(b[1]), 0>>

\* float + float
PyAdd(a, b) ==
    IF a = NaN \/ b = NaN THEN NaN
    ELSE IF IsFinite(a) /\ IsFinite(b) THEN Rat(a[1] * b[2] + b[1] * a[2], a[2] * b[2])
    ELSE IF ~IsFinite(a) /\ ~IsFinite(b) THEN (IF a = b THEN a ELSE NaN)
    ELSE IF IsFinite(a) THEN b ELSE a

\* bool(x) of a number or None: None and zero are falsy, NaN and inf truthy
Truthy(x) == x # None /\ (x[2] = 0 \/ x[1] # 0)

\* x or 0
OrZero(x) == IF Truthy(x) THEN x ELSE Num(0)

\* x > 0 on floats (False for NaN)
GreaterThanZero(x) == x # NaN /\ x[1] > 0

RECURSIVE DigitsValue(_)
DigitsValue(s) == IF s = <<>> THEN 0 ELSE 10 * DigitsValue(SubSeq(s, 1, Len(s) - 1)) + DigitVal(s[Len(s)])

RECURSIVE Pow10(_)
Pow10(k) == IF k = 0 THEN 1 ELSE 10 * Pow10(k - 1)

AllDigits(s) == \A i \in 1..Len(s) : s[i] \in Digits

\* s.strip('"')
RECURSIVE StripQuotes(_)
StripQuotes(s) ==
    IF s # <<>> /\ Head(s) = "\""  THEN StripQuotes(Tail(s))
    ELSE IF s # <<>> /\ s[Len(s)] = "\"" THEN StripQuotes(SubSeq(s, 1, Len(s) - 1))
    ELSE s

\* s.replace(",", "")
RemoveCommas(s) == SelectSeq(s, LAMBDA c : c # ",")

\* float() of an unsigned literal: digits with at most one point and at least
\* one digit, or inf / infinity / nan in any case; None stands for ValueError
UnsignedFloat(t) ==
    LET u == UpperStr(t)
        points == { i \in 1..Len(t) : t[i] = "." }
    IN  IF u \in { <<"I", "N", "F">>, <<"I", "N", "F", "I", "N", "I", "T", "Y">> } THEN PosInf
        ELSE IF u = <<"N", "A", "N">> THEN NaN
        ELSE IF t = <<>> \/ Cardinality(points) > 1 THEN None
        ELSE LET p == IF points = {} THEN Len(t) + 1 ELSE CHOOSE i \in points : TRUE
                 whole == SubSeq(t, 1, p - 1)
                 frac == SubSeq(t, p + 1, Len(t))
             IN  IF AllDigits(whole) /\ AllDigits(frac) /\ Len(whole) + Len(frac) > 0
                 THEN Rat(DigitsValue(whole \o frac), Pow10(Len(frac)))
                 ELSE None

\* float(s): surrounding whitespace and one leading sign are accepted
FloatOf(s) ==
    LET t == Strip(s)
    IN  IF t # <<>> /\ Head(t) \in {"+", "-"}
        THEN LET v == UnsignedFloat(Tail(t))
             IN  IF v = None \/ v = NaN \/ Head(t) = "+" THEN v ELSE <<-v[1], v[2]>>
        ELSE UnsignedFloat(t)

\* mutant: an unparseable or empty cell reads as zero
parse_number_Zero(s) ==
    IF s = None THEN Num(0)
    ELSE LET t == RemoveCommas(StripQuotes(Strip(s)))
         IN  IF t = <<>> \/ t = <<"-">> \/ FloatOf(t) = None THEN Num(0) ELSE FloatOf(t)

\* _parse_number (lines 411-421); a missing cell is passed as the empty str
parse_number(s) ==
    IF s = None THEN None
    ELSE LET t == RemoveCommas(StripQuotes(Strip(s)))
         IN  IF t = <<>> \/ t = <<"-">> THEN None ELSE FloatOf(t)

\* int(f) raises OverflowError on inf and ValueError on NaN
IntRaises(s) == parse_number(s) # None /\ ~IsFinite(parse_number(s))

\* _parse_int (lines 424-429) where it does not raise: int() truncates
parse_int(s) ==
    LET f == parse_number(s)
    IN  IF f = None \/ ~IsFinite(f) THEN None
        ELSE Num(Sign(f[1]) * (Abs(f[1]) \div f[2]))

IsLeap(y) == (y % 4 = 0 /\ y % 100 # 0) \/ y % 400 = 0

DaysIn(y, m) ==
    IF m = 2 THEN (IF IsLeap(y) THEN 29 ELSE 28)
    ELSE IF m \in {4, 6, 9, 11} THEN 30 ELSE 31

\* date(y, m, d), None standing for ValueError
DateOf(y, m, d) ==
    IF y >= 1 /\ m \in 1..12 /\ d >= 1 /\ d <= DaysIn(y, m) THEN <<y, m, d>> ELSE None

\* the fields of s between separator sep, when s is three runs of digits of
\* widths w1, w2, w3 joined by sep (sep = "" for none); else None
DateFields(s, w1, w2, w3, sep) ==
    LET n == Len(sep)
        a == SubSeq(s, 1, w1)
        b == SubSeq(s, w1 + n + 1, w1 + n + w2)
        c == SubSeq(s, w1 + w2 + 2 * n + 1, w1 + w2 + w3 + 2 * n)
    IN  IF /\ Len(s) = w1 + w2 + w3 + 2 * n
           /\ SubSeq(s, w1 + 1, w1 + n) = sep
           /\ SubSeq(s, w1 + n + w2 + 1, w1 + w2 + 2 * n) = sep
           /\ AllDigits(a) /\ AllDigits(b) /\ AllDigits(c)
        THEN <<DigitsValue(a), DigitsValue(b), DigitsValue(c)>>
        ELSE None

\* "%d-%b-%Y" on a two-digit day and a three-letter month name
DayMonthNameYear(s) ==
    IF /\ Len(s) = 11 /\ s[3] = "-" /\ s[7] = "-"
       /\ AllDigits(SubSeq(s, 1, 2)) /\ AllDigits(SubSeq(s, 8, 11))
       /\ UpperStr(SubSeq(s, 4, 6)) \in Range(MonthNames)
    THEN DateOf(DigitsValue(SubSeq(s, 8, 11)),
                Int2(MonthNum(UpperStr(SubSeq(s, 4, 6)))),
                DigitsValue(SubSeq(s, 1, 2)))
    ELSE None

\* the formats of lines 395-402 in order, on fields of full width
DateFormats(s) ==
    LET ymd1 == DateFields(s, 4, 2, 2, <<"-">>)
        ymd2 == DateFields(s, 4, 2, 2, <<"/">>)
        dmy == DateFields(s, 2, 2, 4, <<"/">>)
        ymd3 == DateFields(s, 4, 2, 2, <<>>)
    IN  << IF ymd1 = None THEN None ELSE DateOf(ymd1[1], ymd1[2], ymd1[3]),
           IF ymd2 = None THEN None ELSE DateOf(ymd2[1], ymd2[2], ymd2[3]),
           IF dmy = None THEN None ELSE DateOf(dmy[3], dmy[2], dmy[1]),
           IF dmy = None THEN None ELSE DateOf(dmy[3], dmy[1], dmy[2]),
           IF ymd3 = None THEN None ELSE DateOf(ymd3[1], ymd3[2], ymd3[3]),
           DayMonthNameYear(s) >>

\* _parse_date (lines 388-408): the first format that parses
parse_date(s) ==
    IF s = None \/ s = <<>> THEN None
    ELSE LET t == StripQuotes(Strip(s))
             hits == { k \in 1..6 : DateFormats(t)[k] # None }
         IN  IF hits = {} THEN None ELSE DateFormats(t)[SetMin(hits)]

-----------------------------------------------------------------------------
(* parser_pcf.py: _is_futures_row                                           *)
(* A row is what csv.reader yields: a sequence of cells, each a str.  The    *)
(* two characters of the localized "futures" keyword are written "U+5148"   *)
(* and "U+7269".                                                            *)

\* $: the end of the string
EndOfString == [kind |-> "end", cs |-> {}, lo |-> 0, hi |-> 0]

\* lines 453-454: the exchange tokens the scan recognises
KnownExchanges ==
    { <<"O", "S", "E">>, <<"X", "O", "S", "E">>, <<"T", "S", "E">>, <<"X", "T", "K", "S">>, <<"S", "A", "P">>, <<"O", "T", "C">>, <<"H", "K", "F">>, <<"T", "O", "C", "O", "M">>, <<"X", "N", "Y", "S">>, <<"X", "N", "A", "S">> }

\* line 459
FuturesExchanges == { <<"O", "S", "E">>, <<"X", "O", "S", "E">> }

\* row[idx] in Python's 0-based indexing; "" when the row is too short
Cell(r, idx) == IF Len(r) > idx THEN r[idx + 1] ELSE <<>>

\* lines 451-452: the value the scan looks at in position idx
ExchangeValue(r, idx) == UpperStr(Strip(Cell(r, idx)))

\* mutant: only position 3 is looked at
ExchangeOf_Position3(r) ==
    IF ExchangeValue(r, 3) \in KnownExchanges THEN ExchangeValue(r, 3) ELSE <<>>

\* lines 449-456: the first of positions 3, 4 holding a recognised token
ExchangeOf(r) ==
    IF ExchangeValue(r, 3) \in KnownExchanges THEN ExchangeValue(r, 3)
    ELSE IF ExchangeValue(r, 4) \in KnownExchanges THEN ExchangeValue(r, 4)
    ELSE <<>>

\* line 465: ^[A-Z]{2,4}[A-Z0-9]\d$
FuturesCodePattern ==
    { <<Item(Range(UpperLetters), 2, 4), Item(Range(UpperLetters) \cup Digits, 1, 1),
        Dig(1), EndOfString>> }

\* re.match(pattern, code)
IsFuturesCode(code) == MatchAt(FuturesCodePattern, code, 1, FALSE)

\* lines 470-480
futures_name_patterns ==
    << {Lit(<<"F", "U", "T", "U", "R", "E", "S">>)},
       {Lit(<<"F", "U", "T", "R">>)},
       {Lit(<<"T", "O", "P", "I", "X">>) \o <<Sp1, Dig(4)>>},
       {Lit(<<"N", "K", "2", "2", "5">>) \o <<Sp1, Dig(4)>>},
       {Lit(<<"N", "I", "K", "K", "E", "I">>) \o <<Sp0>> \o Lit(<<"2", "2">>) \o <<Opt("5"), Sp1, Dig(1)>>},
       {Lit(<<"T", "O", "P", "I", "X">>) \o <<Sp1>> \o Lit(<<"I", "N", "D", "X">>)},
       {Lit(<<"N", "I", "K", "K", "E", "I">>) \o <<Sp1>> \o Lit(<<"2", "2", "5">>) \o <<Sp1>> \o Lit(<<"M", "I", "N", "I">>)},
       {Lit(<<"J", "G", "B">>)},
       {Lit(<<"U+5148", "U+7269">>)} >>

\* lines 481-483
NameHasFuturesKeyword(name) ==
    \E k \in 1..Len(futures_name_patterns) : Search(futures_name_patterns[k], name, FALSE)

\* mutant: rows of any length are looked at
is_futures_row_AnyLength(r) ==
    LET code == Strip(Cell(r, 0))
        name == UpperStr(Strip(Cell(r, 1)))
    IN  \/ ExchangeOf(r) \in FuturesExchanges /\ (code = <<>> \/ IsFuturesCode(code))
        \/ code = <<>> /\ name # <<>> /\ NameHasFuturesKeyword(name)

is_futures_row(r) ==
    IF Len(r) < 3 THEN FALSE
    ELSE
      LET code == Strip(Cell(r, 0))
          name == UpperStr(Strip(Cell(r, 1)))
          exchange == ExchangeOf(r)
      IN  IF exchange \in FuturesExchanges /\ (code = <<>> \/ IsFuturesCode(code))
          THEN TRUE
          ELSE code = <<>> /\ name # <<>> /\ NameHasFuturesKeyword(name)

\* the cells a vendor row is made of, by position: code, name, then the rest
CodeCells ==
    { <<>>, <<" ">>, <<"1", "3", "0", "6">>, <<"T", "P", "H", "6">>, <<" ", "N", "K", "H", "6">>, <<"A", "B", "1">>, <<"A", "B", "1", "2">>, <<"A", "B", "C", "D", "E", "1">>, <<"t", "p", "h", "6">> }

NameCells ==
    { <<>>, <<"T", "O", "Y", "O", "T", "A">>, <<"t", "o", "p", "i", "x", " ", "2", "6", "0", "3">>, <<"T", "O", "P", "I", "X", "2", "6", "0", "3">>, <<"N", "i", "k", "k", "e", "i", "2", "2", "5", " ", "m", "i", "n", "i">>, <<"J", "G", "B">>, <<"U+5148", "U+7269">> }

OtherCells == { <<>>, <<"O", "S", "E">>, <<" ", "x", "o", "s", "e", " ">>, <<"T", "S", "E">>, <<"J", "P", "Y">> }

CellsAt(k) == IF k = 1 THEN CodeCells ELSE IF k = 2 THEN NameCells ELSE OtherCells

\* longest row, in cells
MaxCells == 5

-----------------------------------------------------------------------------
(* parser_pcf.py: the three dialect parsers and parse_pcf                   *)
(* A text is the sequence of its lines and a line the sequence of its cells *)
(* (no cell holds a comma, a quote or a line break, so csv.reader and       *)
(* str.split cut a line into the same cells); the empty line is <<>>.       *)
(* Header names are compared upper-cased where the code lower-cases them.   *)

\* a line of white space only
IsBlankLine(l) == l = <<>> \/ (Len(l) = 1 /\ Strip(l[1]) = <<>>)

\* not csv_text or not csv_text.strip()
IsBlankText(lines) == \A i \in 1..Len(lines) : IsBlankLine(lines[i])

RECURSIVE DropLeadingBlank(_)
DropLeadingBlank(lines) ==
    IF lines # <<>> /\ IsBlankLine(Head(lines)) THEN DropLeadingBlank(Tail(lines)) ELSE lines

RECURSIVE DropTrailingBlank(_)
DropTrailingBlank(lines) ==
    IF lines # <<>> /\ IsBlankLine(lines[Len(lines)])
    THEN DropTrailingBlank(SubSeq(lines, 1, Len(lines) - 1))
    ELSE lines

\* the lines of csv_text.strip() for a text that is not blank
StripSplit(lines) ==
    LET body == DropTrailingBlank(DropLeadingBlank(lines))
        n == Len(body)
        first == [body[1] EXCEPT ![1] = StripLeft(@)]
        mid == [body EXCEPT ![1] = first]
        last == mid[n]
    IN  [mid EXCEPT ![n] = [last EXCEPT ![Len(last)] = StripRight(@)]]

\* needle in s
Contains(s, needle) ==
    \E i \in 1..(Len(s) - Len(needle) + 1) : SubSeq(s, i, i + Len(needle) - 1) = needle

\* the 0-based index of the last header equal to one of names, or -1
ColumnOf(col_headers, names) ==
    LET hits == { i \in 1..Len(col_headers) : UpperStr(Strip(col_headers[i])) \in names }
    IN  IF hits = {} THEN -1 ELSE (CHOOSE i \in hits : \A j \in hits : j <= i) - 1

\* lines 63-74 and 274-292
Columns(col_headers) ==
    LET shares == ColumnOf(col_headers, { <<"S", "H", "A", "R", "E", "S", " ", "A", "M", "O", "U", "N", "T">>, <<"S", "H", "A", "R", "E", "S">> })
        price == ColumnOf(col_headers, { <<"S", "T", "O", "C", "K", " ", "P", "R", "I", "C", "E">> })
        shares_col == IF shares < 0 THEN 5 ELSE shares
    IN  [ shares_col |-> shares_col,
          price_col |-> IF price < 0 THEN shares_col + 1 ELSE price,
          mv_col |-> ColumnOf(col_headers, { <<"M", "A", "R", "K", "E", "T", " ", "V", "A", "L", "U", "E">> }),
          multiplier_col |-> ColumnOf(col_headers, { <<"F", "U", "T", "U", "R", "E", " ", "M", "U", "L", "T", "I", "P", "L", "I", "E", "R">> }) ]

PCFRecord(etf_code, pcf_date, nav, shares_outstanding, cash, count, value, futures) ==
    [ etf_code |-> etf_code,
      pcf_date |-> pcf_date,
      nav |-> nav,
      shares_outstanding |-> shares_outstanding,
      cash_component |-> cash,
      equity_count_tse |-> IF Truthy(count) THEN count ELSE None,
      equity_market_value |-> IF Truthy(value) THEN value ELSE None,
      futures_positions |-> futures ]

\* what a parser call does: raise, or return a record or None
Returned(record) == [raised |-> FALSE, record |-> record]
Raised == [raised |-> TRUE, record |-> None]

\* mutant: the whole list
FirstTwo_All(list) == list

\* futures_positions[:2], a new list
FirstTwo(list) == SubSeq(list, 1, IF Len(list) < 2 THEN Len(list) ELSE 2)

\* mutant: an unparseable date stays None
DateOrToday_None(d, today) == d

\* lines 54-55, 173-174, 260-261
DateOrToday(d, today) == IF d = None THEN today ELSE d

\* the row loop of a table dialect (lines 82-99 and 300-331): skipcash - the
\* Cash / Margin rows are passed over; usemv - the market-value column is read
Skipped(r, skipcash) ==
    \/ Len(r) < 3
    \/ skipcash /\ UpperStr(Strip(Cell(r, 0))) \in { <<"C", "A", "S", "H">>, <<"M", "A", "R", "G", "I", "N">> }

\* the row loop reaches a cell that _parse_int cannot turn into an int
RowRaises(r, cols, skipcash) ==
    ~Skipped(r, skipcash) /\ Len(r) > cols.shares_col /\ IntRaises(r[cols.shares_col + 1])

RowQuantity(r, cols) ==
    IF Len(r) > cols.shares_col THEN parse_int(r[cols.shares_col + 1]) ELSE Num(0)

\* the price of a futures row (0.0 when the row is short)
FuturesPrice(r, cols) ==
    IF Len(r) > cols.price_col THEN parse_number(r[cols.price_col + 1]) ELSE Num(0)

\* the price of an equity row (None when the row is short)
EquityPrice(r, cols) ==
    IF Len(r) > cols.price_col THEN parse_number(r[cols.price_col + 1]) ELSE None

\* lines 317-320
HasMarketValue(r, cols) ==
    cols.mv_col >= 0 /\ Len(r) > cols.mv_col /\ Strip(r[cols.mv_col + 1]) # <<>>

\* lines 91 and 320: (quantity or 0) * (price or 0)
ComputedValue(r, cols) == PyMul(OrZero(RowQuantity(r, cols)), OrZero(FuturesPrice(r, cols)))

\* mutant: the market-value column is never read
FuturesMarketValue_Computed(r, cols, usemv) == ComputedValue(r, cols)

FuturesMarketValue(r, cols, usemv) ==
    IF usemv /\ HasMarketValue(r, cols)
    THEN OrZero(parse_number(r[cols.mv_col + 1]))
    ELSE ComputedValue(r, cols)

\* lines 89-93 and 313-324
TableFuturesLeg(r, cols, usemv) ==
    normalize_futures(StrValue(Strip(Cell(r, 1))), OrZero(RowQuantity(r, cols)),
                      FuturesMarketValue(r, cols, usemv))

\* lines 97 and 329: if shares and price
EquityCounts(shares, price) == Truthy(shares) /\ Truthy(price)

\* mutant: futures rows are added to the equity totals as well
CountsAsEquity_All(r, skipcash) == ~Skipped(r, skipcash)

\* the row takes the else branch of lines 94 and 325
CountsAsEquity(r, skipcash) == ~Skipped(r, skipcash) /\ ~is_futures_row(r)

RECURSIVE TableFutures(_, _, _, _)
TableFutures(rows, cols, skipcash, usemv) ==
    IF rows = <<>> THEN <<>>
    ELSE (IF ~Skipped(Head(rows), skipcash) /\ is_futures_row(Head(rows))
          THEN <<TableFuturesLeg(Head(rows), cols, usemv)>> ELSE <<>>)
         \o TableFutures(Tail(rows), cols, skipcash, usemv)

\* total_equity_value and total_equity_count after the rows, given their
\* values before: <<value, count>>
\* lines 98-99, 204-205, 330-331: the totals after one more equity row
AddEquity(acc, counts, shares, price) ==
    IF counts /\ EquityCounts(shares, price)
    THEN <<PyAdd(acc[1], PyMul(shares, price)), PyAdd(acc[2], shares)>>
    ELSE acc

RECURSIVE TableTotals(_, _, _, _)
TableTotals(rows, cols, skipcash, acc) ==
    IF rows = <<>> THEN acc
    ELSE TableTotals(Tail(rows), cols, skipcash,
                     AddEquity(acc, CountsAsEquity(Head(rows), skipcash),
                               RowQuantity(Head(rows), cols), EquityPrice(Head(rows), cols)))

\* lines 102-104 and 334-335
ReconstructedNav(cash, total) ==
    IF cash # None \/ GreaterThanZero(total) THEN PyAdd(OrZero(cash), total) ELSE None

\* lines 106-117 and 337-348, with the values the function has computed
TableRecord(etf_code, today, meta_row, cash, disclosed, totals, futures) ==
    PCFRecord(etf_code,
              DateOrToday(parse_date(meta_row[5]), today),
              IF disclosed # None THEN disclosed ELSE ReconstructedNav(cash, totals[1]),
              parse_int(meta_row[4]), cash, totals[2], totals[1], FirstTwo(futures))

\* lines 51-117 and 257-348: the metadata row, the column headers and the
\* holdings rows of a text of at least four lines
TableBody(etf_code, today, spglobal, is_amova, meta_row, cols, rows) ==
    IF IntRaises(meta_row[4]) \/ \E i \in 1..Len(rows) : RowRaises(rows[i], cols, spglobal)
    THEN Raised
    ELSE Returned(TableRecord(etf_code, today, meta_row,
                              parse_number(meta_row[3]),
                              IF is_amova /\ Len(meta_row) > 5
                              THEN parse_number(meta_row[6]) ELSE None,
                              TableTotals(rows, cols, spglobal, <<Num(0), Num(0)>>),
                              TableFutures(rows, cols, spglobal, spglobal)))

\* line 246
IsAmova(header_line) ==
    \E i \in 1..Len(header_line) :
        Contains(header_line[i], <<"C", "a", "s", "h", " ", "&", " ", "O", "t", "h", "e", "r", "s">>) \/ Contains(header_line[i], <<"A", "U", "M">>)

TableLines(L, etf_code, today, spglobal) ==
    IF Len(L) < 4 \/ Len(L[2]) < 5 THEN Returned(None)
    ELSE TableBody(etf_code, today, spglobal, spglobal /\ IsAmova(L[1]),
                   L[2], Columns(L[4]), SubSeq(L, 5, Len(L)))

\* the part ICE and S&P Global share; spglobal: the S&P Global parser, which
\* skips Cash / Margin rows and reads the AUM field and the market-value column
TableDialect(lines, etf_code, today, spglobal) ==
    IF IsBlankText(lines) THEN Returned(None)
    ELSE TableLines(StripSplit(lines), etf_code, today, spglobal)

parse_ice_pcf(lines, etf_code, today) == TableDialect(lines, etf_code, today, FALSE)

parse_spglobal_pcf(lines, etf_code, today) == TableDialect(lines, etf_code, today, TRUE)

\* the Solactive metadata dict: a key is None until a line sets it
NoMeta == [code |-> None, cash |-> None, shares_outstanding |-> None, date |-> None, nav |-> None]

\* p.strip().strip('"') for every part of the line
Parts(l) == [i \in 1..Len(l) |-> StripQuotes(Strip(l[i]))]

\* lines 151-163: what one line of the metadata section does to the dict
MetaStep(meta, parts) ==
    IF Len(parts) < 2 THEN meta
    ELSE LET key == UpperStr(parts[1])
             val == parts[2]
         IN  IF Contains(key, <<"C", "O", "D", "E">>) /\ meta.code = None THEN [meta EXCEPT !.code = val]
             ELSE IF Contains(key, <<"C", "A", "S", "H">>) THEN [meta EXCEPT !.cash = val]
             ELSE IF Contains(key, <<"S", "H", "A", "R", "E", "S", " ", "O", "U", "T", "S", "T", "A", "N", "D", "I", "N", "G">>) \/ Contains(key, <<"U", "N", "I", "T", "S">>)
                  THEN [meta EXCEPT !.shares_outstanding = val]
             ELSE IF Contains(key, <<"D", "A", "T", "E">>) THEN [meta EXCEPT !.date = val]
             ELSE IF Contains(key, <<"N", "A", "V">>) THEN [meta EXCEPT !.nav = val]
             ELSE meta

\* the dict after lines 1..n of the metadata section
RECURSIVE MetaAfter(_, _)
MetaAfter(L, n) == IF n = 0 THEN NoMeta ELSE MetaStep(MetaAfter(L, n - 1), Parts(L[n]))

\* lines 141-170: the 1-based number of the first blank line (past the end if
\* none), and holdings_start, the 0-based index of the first holdings row
FirstBlank(L) ==
    LET blanks == { i \in 1..Len(L) : IsBlankLine(L[i]) }
    IN  IF blanks = {} THEN Len(L) + 1 ELSE SetMin(blanks)

HoldingsStart(L) ==
    LET after == { i \in (FirstBlank(L) + 1)..Len(L) : ~IsBlankLine(L[i]) }
    IN  IF after = {} THEN -1
        ELSE LET h == SetMin(after)
             IN  IF \E k \in 1..Len(L[h]) : Contains(UpperStr(Parts(L[h])[k]), <<"C", "O", "D", "E">>)
                 THEN h
                 ELSE -1

\* lines 196-200
SolactiveLeg(name, shares_amount, stock_price) ==
    normalize_futures(StrValue(name), OrZero(shares_amount),
                      PyMul(OrZero(shares_amount), OrZero(stock_price)))

\* line 193
SolactivePrice(r) == IF Len(r) > 6 THEN parse_number(r[7]) ELSE None

RECURSIVE SolactiveFutures(_)
SolactiveFutures(rows) ==
    IF rows = <<>> THEN <<>>
    ELSE IF Len(Head(rows)) >= 6 /\ is_futures_row(Head(rows))
         THEN <<SolactiveLeg(Strip(Cell(Head(rows), 1)), parse_int(Cell(Head(rows), 5)),
                             SolactivePrice(Head(rows)))>>
                  \o SolactiveFutures(Tail(rows))
         ELSE SolactiveFutures(Tail(rows))

RECURSIVE SolactiveTotals(_, _)
SolactiveTotals(rows, acc) ==
    IF rows = <<>> THEN acc
    ELSE SolactiveTotals(Tail(rows),
                         AddEquity(acc, Len(Head(rows)) >= 6 /\ ~is_futures_row(Head(rows)),
                                   parse_int(Cell(Head(rows), 5)), SolactivePrice(Head(rows))))

\* lines 207-216
SolactiveRecord(etf_code, today, meta, totals, futures) ==
    PCFRecord(etf_code,
              DateOrToday(parse_date(meta.date), today),
              parse_number(meta.nav),
              parse_int(meta.shares_outstanding),
              parse_number(meta.cash),
              totals[2], totals[1], FirstTwo(futures))

\* lines 172-218, with the metadata dict and the holdings rows
SolactiveBody(etf_code, today, meta, rows) ==
    IF IntRaises(meta.shares_outstanding)
       \/ \E i \in 1..Len(rows) : Len(rows[i]) >= 6 /\ IntRaises(rows[i][6])
    THEN Raised
    ELSE Returned(SolactiveRecord(etf_code, today, meta,
                                  SolactiveTotals(rows, <<Num(0), Num(0)>>),
                                  SolactiveFutures(rows)))

SolactiveLines(L, etf_code, today, start) ==
    SolactiveBody(etf_code, today, MetaAfter(L, FirstBlank(L) - 1),
                  IF start > 0 THEN SubSeq(L, start + 1, Len(L)) ELSE <<>>)

parse_solactive_pcf(lines, etf_code, today) ==
    IF IsBlankText(lines) THEN Returned(None)
    ELSE SolactiveLines(StripSplit(lines), etf_code, today, HoldingsStart(StripSplit(lines)))

\* mutant: an exception of the dialect parser reaches the caller
Caught_Not(outcome) == outcome

\* lines 380-382: except Exception ... return None
Caught(outcome) == IF outcome.raised THEN Returned(None) ELSE outcome

\* parse_pcf (lines 354-382); today: what date.today() returns during the call
parse_pcf(lines, etf_code, provider, today) ==
    IF provider = "ice" THEN Caught(parse_ice_pcf(lines, etf_code, today))
    ELSE IF provider = "solactive" THEN Caught(parse_solactive_pcf(lines, etf_code, today))
    ELSE IF provider = "spglobal" THEN Caught(parse_spglobal_pcf(lines, etf_code, today))
    ELSE Returned(None)

-----------------------------------------------------------------------------
(* excel_importer.py: import_sheet                                          *)

\* a worksheet cell as openpyxl returns it with values_only: None, a str, a
\* number or a date
NoCell == [type |-> "none"]
TextCell(text) == [type |-> "str", text |-> text]
NumberCell(value) == [type |-> "number", value |-> value]
DateCell(value) == [type |-> "date", value |-> value]

\* _to_date (lines 63-74): a date cell, or a str of the form %Y-%m-%d
to_date(cell) ==
    IF cell.type = "date" THEN cell.value
    ELSE IF cell.type = "str" /\ DateFields(cell.text, 4, 2, 2, <<"-">>) # None
         THEN DateOf(DateFields(cell.text, 4, 2, 2, <<"-">>)[1],
                     DateFields(cell.text, 4, 2, 2, <<"-">>)[2],
                     DateFields(cell.text, 4, 2, 2, <<"-">>)[3])
    ELSE None

\* _to_float (lines 77-84): ValueError and TypeError give None
to_float(cell) ==
    IF cell.type = "number" THEN cell.value
    ELSE IF cell.type = "str" THEN FloatOf(cell.text)
    ELSE None

\* _to_int (lines 87-94): int() of NaN is a ValueError, hence None; int() of
\* an infinity is an OverflowError, which the function does not catch
to_int_raises(cell) == to_float(cell) # None /\ to_float(cell) # NaN /\ ~IsFinite(to_float(cell))

TruncateOrNone(f) ==
    IF f = None \/ ~IsFinite(f) THEN None ELSE Num(Sign(f[1]) * (Abs(f[1]) \div f[2]))

to_int(cell) == TruncateOrNone(to_float(cell))

\* the header strings a slot may hold by accident (lines 157 and 166)
SlotHeaders == { <<"U+5148", "U+7269", "U+306E", "U+7A2E", "U+985E", "1">>, <<"U+5148", "U+7269", "U+306E", "U+7A2E", "U+985E", "2">> }

\* row[k] of the 0-based code
SheetCell(sheet_row, k) == sheet_row[k + 1]

\* str(row[k]).strip() of a name cell holding text
SlotName(sheet_row, k) == Strip(SheetCell(sheet_row, k).text)

\* lines 154-155 and 163-164: the slot at columns k, k+1, k+2 holds a leg
SlotFilled(sheet_row, k) ==
    /\ Len(sheet_row) > k
    /\ SheetCell(sheet_row, k).type # "none"
    /\ SlotName(sheet_row, k) # <<>>
    /\ SlotName(sheet_row, k) \notin SlotHeaders

\* lines 158-160 and 167-169
SlotLeg(sheet_row, k) ==
    normalize_futures(StrValue(SlotName(sheet_row, k)),
                      OrZero(IF Len(sheet_row) > k + 1 THEN to_int(SheetCell(sheet_row, k + 1)) ELSE Num(0)),
                      OrZero(IF Len(sheet_row) > k + 2 THEN to_float(SheetCell(sheet_row, k + 2)) ELSE Num(0)))

\* lines 150-170: the list the loop body builds for one row
SheetFutures(sheet_row) ==
    (IF SlotFilled(sheet_row, 6) THEN <<SlotLeg(sheet_row, 6)>> ELSE <<>>)
    \o (IF SlotFilled(sheet_row, 9) THEN <<SlotLeg(sheet_row, 9)>> ELSE <<>>)

SheetRaises(sheet_row) ==
    \E k \in {2, 4, 7, 10} :
        /\ Len(sheet_row) > k
        /\ (k \in {7, 10} => SlotFilled(sheet_row, k - 1))
        /\ to_int_raises(SheetCell(sheet_row, k))

\* lines 172-181
SheetRecord(sheet_row, etf_code) ==
    [ etf_code |-> etf_code,
      pcf_date |-> to_date(SheetCell(sheet_row, 0)),
      nav |-> to_float(SheetCell(sheet_row, 1)),
      shares_outstanding |-> to_int(SheetCell(sheet_row, 2)),
      cash_component |-> to_float(SheetCell(sheet_row, 3)),
      equity_count_tse |-> IF Len(sheet_row) > 4 THEN to_int(SheetCell(sheet_row, 4)) ELSE None,
      equity_market_value |-> IF Len(sheet_row) > 5 THEN to_float(SheetCell(sheet_row, 5)) ELSE None,
      futures_positions |-> SheetFutures(sheet_row) ]

\* the body of the loop of import_sheet (lines 136-182) for one data row: a
\* row without a date is passed over
import_row(sheet_row, etf_code) ==
    IF to_date(SheetCell(sheet_row, 0)) = None THEN Returned(None)
    ELSE IF SheetRaises(sheet_row) THEN Raised
    ELSE Returned(SheetRecord(sheet_row, etf_code))

\* the date cells, the six leading columns and the three-column slots of the
\* worksheet rows
SheetDates == { DateCell(<<2026, 2, 17>>), TextCell(<<"2", "0", "2", "6", "-", "0", "2", "-", "1", "7">>), NoCell }

SheetLead(date_cell) ==
    <<date_cell, NumberCell(Num(5000)), NumberCell(Num(100)), NumberCell(Num(1000)),
      NumberCell(Num(40)), NumberCell(Num(4000))>>

SheetSlots ==
    { <<NoCell, NoCell, NoCell>>,
      <<TextCell(<<"U+5148", "U+7269", "U+306E", "U+7A2E", "U+985E", "1">>), NoCell, NoCell>>,
      <<TextCell(<<" ", "T", "O", "P", "I", "X", " ", "2", "6", "0", "3", " ">>), NumberCell(Num(3)), NumberCell(<<3, 2>>)>>,
      <<TextCell(<<"N", "K", "2", "2", "5", " ", "2", "6", "0", "6">>), TextCell(<<"a", "b", "c">>), NoCell>>,
      <<TextCell(<<"J", "G", "B">>), NumberCell(Num(-5)), NumberCell(Num(7))>> }

\* most slots in a worksheet row
MaxSlots == 2

-----------------------------------------------------------------------------
(* aggregator.py: compute_futures_exposure                                  *)

\* a cell of a text column: a str, or the missing value (None / NaN)
TextOf(t) == [isna |-> FALSE, text |-> t]
NaText == [isna |-> TRUE, text |-> ""]

\* the columns records_to_dataframe gives futures slot 1 and futures slot 2
SlotColumns ==
    << [ type |-> "futures1_type", contract_month |-> "futures1_contract_month",
         quantity |-> "futures1_quantity", market_value |-> "futures1_market_value",
         multiplier |-> "futures1_multiplier" ],
       [ type |-> "futures2_type", contract_month |-> "futures2_contract_month",
         quantity |-> "futures2_quantity", market_value |-> "futures2_market_value",
         multiplier |-> "futures2_multiplier" ] >>

ExposureColumns ==
    {"etf_code", "date", "nav"}
    \cup UNION { { SlotColumns[k].type, SlotColumns[k].contract_month, SlotColumns[k].quantity,
                   SlotColumns[k].market_value, SlotColumns[k].multiplier } : k \in 1..2 }

\* a DataFrame: its columns and its rows, each row a record over all the
\* columns of the model whose cells count only for the columns of the table
DataFrame(columns, rows) == [columns |-> columns, rows |-> rows]

\* row.get(col): the cell, or what a missing column gives
Get(df, row, col, missing) == IF col \in df.columns THEN row[col] ELSE missing

\* pd.notna(row.get("futuresK_type")), lines 283 and 294
LegPresent(df, row, k) == ~Get(df, row, SlotColumns[k].type, NaText).isna

\* lines 276-280 and 284-291 / 295-302: the row of leg k
ExposureRow(df, row, k) ==
    [ etf_code       |-> row.etf_code,
      date           |-> row.date,
      nav            |-> Get(df, row, "nav", None),
      futures_type   |-> row[SlotColumns[k].type].text,
      contract_month |-> Get(df, row, SlotColumns[k].contract_month, NaText),
      quantity       |-> Get(df, row, SlotColumns[k].quantity, None),
      market_value   |-> Get(df, row, SlotColumns[k].market_value, None),
      multiplier     |-> Get(df, row, SlotColumns[k].multiplier, None) ]

\* mutant: leg 2 is passed over
LegsOf_FirstOnly(df, row) ==
    IF LegPresent(df, row, 1) THEN <<ExposureRow(df, row, 1)>> ELSE <<>>

\* lines 282-302: leg 1, then leg 2
LegsOf(df, row) ==
    (IF LegPresent(df, row, 1) THEN <<ExposureRow(df, row, 1)>> ELSE <<>>)
    \o (IF LegPresent(df, row, 2) THEN <<ExposureRow(df, row, 2)>> ELSE <<>>)

\* the loop of lines 274-302 over df.iterrows()
RECURSIVE ResultRows(_, _)
ResultRows(df, rows) ==
    IF rows = <<>> THEN <<>> ELSE LegsOf(df, Head(rows)) \o ResultRows(df, Tail(rows))

\* pd.DataFrame(result_rows), line 307: in a column that holds a number, None
\* becomes NaN; a column of None only keeps None
AllNone(result_rows, field) == \A i \in 1..Len(result_rows) : result_rows[i][field] = None

AsFloat(x) == IF x = None THEN Null ELSE x

FAbs(x) == IF IsFinite(x) THEN <<Abs(x[1]), x[2]>> ELSE x

\* (market_value.abs() / nav).where(nav > 0), lines 310-312
futures_ratio(market_value, nav) ==
    IF IsFinite(nav) /\ nav[1] > 0 THEN FDiv(FAbs(market_value), nav) ELSE Null

\* what a call ends in: a table, or an exception and the column it names
TableResult(rows) == [raised |-> FALSE, error |-> "", column |-> "", rows |-> rows]
ErrorResult(error, column) == [raised |-> TRUE, error |-> error, column |-> column, rows |-> <<>>]

\* lines 304-313
FuturesTable(result_rows) ==
    IF result_rows = <<>> THEN TableResult(<<>>)
    ELSE IF AllNone(result_rows, "market_value") \/ AllNone(result_rows, "nav")
         THEN ErrorResult("TypeError", "")
         ELSE TableResult([i \in 1..Len(result_rows) |->
                  [ etf_code       |-> result_rows[i].etf_code,
                    date           |-> result_rows[i].date,
                    nav            |-> AsFloat(result_rows[i].nav),
                    futures_type   |-> result_rows[i].futures_type,
                    contract_month |-> result_rows[i].contract_month,
                    quantity       |-> IF AllNone(result_rows, "quantity") THEN None
                                       ELSE AsFloat(result_rows[i].quantity),
                    market_value   |-> AsFloat(result_rows[i].market_value),
                    multiplier     |-> IF AllNone(result_rows, "multiplier") THEN None
                                       ELSE AsFloat(result_rows[i].multiplier),
                    futures_ratio  |-> futures_ratio(AsFloat(result_rows[i].market_value),
                                                     AsFloat(result_rows[i].nav)) ]])

\* compute_futures_exposure(df), lines 260-313; row["etf_code"] and
\* row["date"] raise KeyError on a table without the column
compute_futures_exposure(df) ==
    IF df.rows = <<>> THEN TableResult(<<>>)
    ELSE IF "etf_code" \notin df.columns THEN ErrorResult("KeyError", "etf_code")
    ELSE IF "date" \notin df.columns THEN ErrorResult("KeyError", "date")
    ELSE FuturesTable(ResultRows(df, df.rows))

\* ui/etf_timeseries_view.py, _calc_notional(mv, qty, mult), lines 189-201:
\* the notional of a leg as the ETF detail table shows it
calc_notional(mv, qty, mult) ==
    IF ~IsFinite(AsFloat(mv)) \/ mv[1] = 0 THEN Num(0)
    ELSE IF ~IsFinite(AsFloat(qty)) \/ qty[1] = 0 THEN mv
    ELSE IF ~IsFinite(AsFloat(mult)) \/ mult[1] = 0 THEN mv
    ELSE IF FDiv(FAbs(mv), FMul(FAbs(qty), mult))[1] >= 100 * FDiv(FAbs(mv), FMul(FAbs(qty), mult))[2]
         THEN mv
         ELSE FMul(mv, mult)

\* the cells of a futures slot: no leg, or the type, contract month, quantity,
\* market value and multiplier of a leg
NoLegCells ==
    [ type |-> NaText, contract_month |-> NaText, quantity |-> Null, market_value |-> Null,
      multiplier |-> Null ]
LegCells(type, month, quantity, market_value) ==
    [ type |-> TextOf(type), contract_month |-> month, quantity |-> Num(quantity),
      market_value |-> Num(market_value), multiplier |-> Num(MultiplierOf(type)) ]

\* a long TOPIX leg whose market value is a price-like number, a short NK225
\* leg whose market value is a full amount, a leg of quantity 0, a leg whose
\* market value is missing
FirstLegs ==
    { NoLegCells,
      LegCells("TOPIX", TextOf("2603"), 5, 3000),
      LegCells("NK225", TextOf("2603"), -2, -76000000),
      LegCells("UNKNOWN", NaText, 0, 500),
      [LegCells("TOPIX", TextOf("2603"), 5, 0) EXCEPT !.market_value = Null] }
SecondLegs == { NoLegCells, LegCells("NK225_MINI", TextOf("2606"), 40, 1200) }

ExposureNavs == { Num(1000000), Num(0), Num(-1000), Null }

ExposureInput(date, nav, a, b) ==
    [ etf_code |-> "1306", date |-> date, nav |-> nav,
      futures1_type |-> a.type, futures1_contract_month |-> a.contract_month,
      futures1_quantity |-> a.quantity, futures1_market_value |-> a.market_value,
      futures1_multiplier |-> a.multiplier,
      futures2_type |-> b.type, futures2_contract_month |-> b.contract_month,
      futures2_quantity |-> b.quantity, futures2_market_value |-> b.market_value,
      futures2_multiplier |-> b.multiplier ]

\* most records of the table handed to compute_futures_exposure
MaxRecords == 2

-----------------------------------------------------------------------------
(* aggregator.py: the entry points on a table that may lack a column        *)

\* the first column of the list that the table does not have, else ""
RECURSIVE MissingColumn(_, _)
MissingColumn(df, cols) ==
    IF cols = <<>> THEN ""
    ELSE IF Head(cols) \notin df.columns THEN Head(cols) ELSE MissingColumn(df, Tail(cols))

\* compute_creation_redemption(df) with its guard, lines 38-45
CreationRedemptionOf(df) ==
    IF df.rows = <<>> THEN TableResult(<<>>)
    ELSE IF MissingColumn(df, <<"etf_code", "date", "nav", "shares_outstanding">>) # ""
         THEN ErrorResult("ValueError",
                          MissingColumn(df, <<"etf_code", "date", "nav", "shares_outstanding">>))
         ELSE TableResult(compute_creation_redemption(df.rows))

\* the rows cr_df[cr_df["etf_code"].isin(codes)] keeps, lines 105 and 199
RowsOfCategory(df, category) ==
    SelectSeq(df.rows, LAMBDA r : r.etf_code \in resolve_codes(category, df.rows, NoMaster))

\* aggregate_by_category(cr_df, category) of a category of CATEGORY_CODE_MAP,
\* lines 101-126: indexing and groupby raise KeyError on a missing column
AggregateByCategoryOf(df, category) ==
    IF df.rows = <<>> THEN TableResult(<<>>)
    ELSE IF "etf_code" \notin df.columns THEN ErrorResult("KeyError", "etf_code")
    ELSE IF RowsOfCategory(df, category) = <<>> THEN TableResult(<<>>)
    ELSE IF MissingColumn(df, <<"date", "flow_amount", "flow_type">>) # ""
         THEN ErrorResult("KeyError", MissingColumn(df, <<"date", "flow_amount", "flow_type">>))
         ELSE TableResult(aggregate_by_category(df.rows, category, NoMaster))

FMax(a, b) == IF a[1] * b[2] >= b[1] * a[2] THEN a ELSE b

RECURSIVE MaxOf(_)
MaxOf(xs) == IF Len(xs) = 1 THEN xs[1] ELSE FMax(Head(xs), MaxOf(Tail(xs)))

\* one row of filtered.groupby("date").agg(...), lines 203-208; sum, mean and
\* max pass over missing values
NavRow(g, d) ==
    [ date      |-> d,
      nav_total |-> SumFlows(SelectSeq(Column(g, "nav"), IsFinite)),
      nav_mean  |-> IF SelectSeq(Column(g, "nav"), IsFinite) = <<>> THEN Null
                    ELSE FDiv(SumFlows(SelectSeq(Column(g, "nav"), IsFinite)),
                              Num(Len(SelectSeq(Column(g, "nav"), IsFinite)))),
      nav_max   |-> IF SelectSeq(Column(g, "nav"), IsFinite) = <<>> THEN Null
                    ELSE MaxOf(SelectSeq(Column(g, "nav"), IsFinite)),
      etf_count |-> Cardinality({ g[i].etf_code : i \in 1..Len(g) }) ]

NavByDate(filtered) ==
    [k \in 1..Len(AscendingSeq({ filtered[i].date : i \in 1..Len(filtered) })) |->
        NavRow(SelectSeq(filtered,
                         LAMBDA r : r.date = AscendingSeq({ filtered[i].date : i \in 1..Len(filtered) })[k]),
               AscendingSeq({ filtered[i].date : i \in 1..Len(filtered) })[k])]

\* aggregate_nav_total(df, category) of a category of CATEGORY_CODE_MAP,
\* lines 186-210
aggregate_nav_total(df, category) ==
    IF df.rows = <<>> THEN TableResult(<<>>)
    ELSE IF "etf_code" \notin df.columns THEN ErrorResult("KeyError", "etf_code")
    ELSE IF RowsOfCategory(df, category) = <<>> THEN TableResult(<<>>)
    ELSE IF MissingColumn(df, <<"date", "nav">>) # ""
         THEN ErrorResult("KeyError", MissingColumn(df, <<"date", "nav">>))
         ELSE TableResult(NavByDate(RowsOfCategory(df, category)))

EntryPoints ==
    { "compute_creation_redemption", "aggregate_by_category", "aggregate_nav_total",
      "compute_futures_exposure" }

\* the columns an entry point reads
RequiredColumns(entry) ==
    CASE entry = "compute_creation_redemption" -> {"etf_code", "date", "nav", "shares_outstanding"}
      [] entry = "aggregate_by_category" -> {"etf_code", "date", "flow_amount", "flow_type"}
      [] entry = "aggregate_nav_total" -> {"etf_code", "date", "nav"}
      [] entry = "compute_futures_exposure" -> ExposureColumns

EntryResult(entry, df, category) ==
    CASE entry = "compute_creation_redemption" -> CreationRedemptionOf(df)
      [] entry = "aggregate_by_category" -> AggregateByCategoryOf(df, category)
      [] entry = "aggregate_nav_total" -> aggregate_nav_total(df, category)
      [] entry = "compute_futures_exposure" -> compute_futures_exposure(df)

TableColumns == ExposureColumns \cup {"shares_outstanding", "flow_amount", "flow_type"}

\* rows of a table that has the columns of the time series and of the flows:
\* the record of date d, with or without legs
TableRows(d) ==
    { ExposureInput(d, Num(1000000), a, b)
          @@ [shares_outstanding |-> Num(100 * d), flow_amount |-> Num(500), flow_type |-> "creation"] :
        a \in { NoLegCells, LegCells("TOPIX", TextOf("2603"), 5, 3000) },
        b \in SecondLegs }

-----------------------------------------------------------------------------
(* models.py: PCFRecord.nav_per_unit; excel_importer.py: records_to_dataframe *)

\* a float divided by an int that is > 0
TrueDiv(a, b) == IF IsFinite(a) THEN Rat(a[1] * b[2], a[2] * b[1]) ELSE a

\* the property nav_per_unit, models.py lines 47-52
nav_per_unit(r) ==
    IF /\ Truthy(r.nav)
       /\ Truthy(r.shares_outstanding)
       /\ GreaterThanZero(r.shares_outstanding)
    THEN TrueDiv(r.nav, r.shares_outstanding)
    ELSE None

\* the cells of futures slot k of a row, lines 272-301
SlotCells(r, k) ==
    IF Len(r.futures_positions) >= k
    THEN [ raw_name |-> TextOf(r.futures_positions[k].raw_name),
           type |-> TextOf(r.futures_positions[k].futures_type),
           contract_month |-> IF r.futures_positions[k].contract_month = None THEN NaText
                              ELSE TextOf(r.futures_positions[k].contract_month),
           quantity |-> r.futures_positions[k].quantity,
           market_value |-> r.futures_positions[k].market_value,
           multiplier |-> r.futures_positions[k].multiplier ]
    ELSE [ raw_name |-> NaText, type |-> NaText, contract_month |-> NaText, quantity |-> None,
           market_value |-> None, multiplier |-> None ]

\* the row records_to_dataframe builds for a record, lines 259-303
DataframeRow(r) ==
    [ etf_code |-> r.etf_code,
      date |-> r.pcf_date,
      nav |-> r.nav,
      shares_outstanding |-> r.shares_outstanding,
      cash_component |-> r.cash_component,
      equity_count_tse |-> r.equity_count_tse,
      equity_market_value |-> r.equity_market_value,
      nav_per_unit |-> nav_per_unit(r),
      futures1 |-> SlotCells(r, 1),
      futures2 |-> SlotCells(r, 2) ]

\* the NAV and the shares outstanding of the records of the model: missing,
\* NaN, infinite, zero, negative and positive
UnitNavs ==
    { None, NaN, PosInf, Num(0), Num(7), Num(12), Num(-12), <<1, 2>>, Num(1000), Num(5000) }
UnitShares == { None, Num(0), Num(-3), Num(1), Num(3), Num(7), Num(100) }

-----------------------------------------------------------------------------
(* storage.py: append_daily                                                 *)

\* what is kept under the key in R2 or at the path of the local file: nothing,
\* or a table
Absent == [present |-> FALSE, table |-> <<>>]
Kept(table) == [present |-> TRUE, table |-> table]

\* a row of the time series: its key (etf_code, date) and the rest of it
StoreRow(etf_code, date, nav) == [etf_code |-> etf_code, date |-> date, nav |-> nav]

KeyOf(r) == <<r.etf_code, r.date>>

\* the order of sort_values(["etf_code", "date"]): codes are digit strings of
\* one length, dates are <<year, month, day>>
DateBefore(d, e) ==
    \/ d[1] < e[1]
    \/ d[1] = e[1] /\ d[2] < e[2]
    \/ d[1] = e[1] /\ d[2] = e[2] /\ d[3] < e[3]

KeyBefore(r, q) ==
    \/ DigitsValue(r.etf_code) < DigitsValue(q.etf_code)
    \/ r.etf_code = q.etf_code /\ DateBefore(r.date, q.date)

\* drop_duplicates(subset=["etf_code", "date"], keep="last"), line 129
DropDuplicates(df) ==
    SelectSeq([i \in 1..Len(df) |-> [row |-> df[i],
                                     last |-> \A j \in (i + 1)..Len(df) : KeyOf(df[j]) # KeyOf(df[i])]],
              LAMBDA e : e.last)

Rows(entries) == [i \in 1..Len(entries) |-> entries[i].row]

\* sort_values(["etf_code", "date"]) of a table without duplicate keys, line 132
RECURSIVE SortValues(_)
SortValues(df) ==
    IF df = <<>> THEN <<>>
    ELSE LET i == CHOOSE i \in 1..Len(df) : \A j \in 1..Len(df) : j # i => KeyBefore(df[i], df[j])
         IN  <<df[i]>> \o SortValues(SubSeq(df, 1, i - 1) \o SubSeq(df, i + 1, Len(df)))

\* lines 112-120: the table read from R2 if the object is there, else from
\* the local file if it exists, else the empty table
Existing(r2, file) ==
    IF r2.present THEN r2.table ELSE IF file.present THEN file.table ELSE <<>>

\* mutant: duplicates are dropped whatever the existing table
Combined_Always(existing, new_df) == SortValues(Rows(DropDuplicates(existing \o new_df)))

\* lines 122-134
Combined(existing, new_df) ==
    IF existing # <<>> THEN SortValues(Rows(DropDuplicates(existing \o new_df))) ELSE new_df

\* the rows of the model: two ETF codes, two dates, two values
StoreCodes == { <<"1", "3", "0", "6">>, <<"1", "3", "2", "1">> }
StoreDates == { <<2026, 2, 16>>, <<2026, 2, 17>> }
StoreNavs == { 100, 200 }
StoreRows ==
    { StoreRow(c, d, n) : c \in StoreCodes, d \in { <<2026, 2, 17>> }, n \in StoreNavs }
    \cup { StoreRow(<<"1", "3", "0", "6">>, <<2026, 2, 16>>, 100) }

\* most rows of the store at the start, most rows of a batch
MaxStored == 1
MaxBatch == 2

\* the tables the store starts from: written by save_timeseries from a table
\* sorted by key and free of duplicate keys
RECURSIVE StoredTables(_)
StoredTables(n) ==
    IF n = 0 THEN { <<>> }
    ELSE StoredTables(n - 1)
         \cup { Append(t, r) : t \in { u \in StoredTables(n - 1) : Len(u) = n - 1 }, r \in StoreRows }

IsStored(t) == \A i \in 1..(Len(t) - 1) : KeyBefore(t[i], t[i + 1])

-----------------------------------------------------------------------------
(* storage.py: update_etf_master                                            *)

\* a value of the code column in memory: a Python int or a str
IntCode(n) == [type |-> "int", number |-> n, text |-> <<>>]
StrCode(t) == [type |-> "str", number |-> 0, text |-> t]

MasterRow(code, category) == [code |-> code, category |-> category]

DigitChar(v) == (<<"0", "1", "2", "3", "4", "5", "6", "7", "8", "9">>)[v + 1]

\* str() of a non-negative int
RECURSIVE DecimalText(_)
DecimalText(n) ==
    IF n < 10 THEN <<DigitChar(n)>> ELSE DecimalText(n \div 10) \o <<DigitChar(n % 10)>>

\* the text to_csv writes for a code
CodeText(code) == IF code.type = "int" THEN DecimalText(code.number) ELSE code.text

\* df.to_csv(index=False), line 147: the cells of the file are text
to_csv(df) ==
    [i \in 1..Len(df) |-> [code |-> CodeText(df[i].code), category |-> df[i].category]]

\* a cell pandas reads as an integer
IntegerCell(t) == t # <<>> /\ AllDigits(t)

\* pd.read_csv, lines 164 and 169, without dtype: a column all of whose cells
\* are integers comes back as int64, any other column as str
read_csv(content) ==
    [i \in 1..Len(content) |->
        [code |-> IF \A j \in 1..Len(content) : IntegerCell(content[j].code)
                  THEN IntCode(DigitsValue(content[i].code))
                  ELSE StrCode(content[i].code),
         category |-> content[i].category]]

\* load_etf_master, lines 158-173: R2 first, the local file next, else the
\* empty table
load_etf_master(r2, file) ==
    IF r2.present THEN read_csv(r2.table)
    ELSE IF file.present THEN read_csv(file.table) ELSE <<>>

\* drop_duplicates(subset=["code"], keep="last"), line 180: an int and a str
\* are different values
DropDuplicateCodes(df) ==
    Rows(SelectSeq([i \in 1..Len(df) |-> [row |-> df[i],
                                          last |-> \A j \in (i + 1)..Len(df) : df[j].code # df[i].code]],
                   LAMBDA e : e.last))

\* lines 178-182
CombinedMaster(existing, new_df) ==
    IF existing # <<>> THEN DropDuplicateCodes(existing \o new_df) ELSE new_df

\* update_etf_master up to the table handed to save_etf_master, lines 177-183
update_etf_master(r2, file, new_df) ==
    to_csv(CombinedMaster(load_etf_master(r2, file), new_df))

\* the codes and categories of the model; 133A is no integer
MasterCodes ==
    { StrCode(<<"1", "3", "0", "6">>), StrCode(<<"1", "3", "2", "1">>), StrCode(<<"1", "3", "3", "A">>),
      IntCode(1306) }
MasterCategories == { "topix", "other" }
MasterRows == { MasterRow(c, g) : c \in MasterCodes, g \in MasterCategories }

-----------------------------------------------------------------------------
(* The PCF texts handed to parse_pcf                                        *)

BlankLine == <<>>

\* line 0 of a table text: the plain header and the extended one
HeaderPlain == <<<<"E", "T", "F", " ", "C", "o", "d", "e">>, <<"E", "T", "F", " ", "N", "a", "m", "e">>, <<"F", "u", "n", "d", " ", "C", "a", "s", "h", " ", "C", "o", "m", "p", "o", "n", "e", "n", "t">>, <<"S", "h", "a", "r", "e", "s", " ", "O", "u", "t", "s", "t", "a", "n", "d", "i", "n", "g">>, <<"F", "u", "n", "d", " ", "D", "a", "t", "e">>>>
HeaderAmova == <<<<"E", "T", "F", " ", "C", "o", "d", "e">>, <<"E", "T", "F", " ", "N", "a", "m", "e">>, <<"C", "a", "s", "h", " ", "&", " ", "O", "t", "h", "e", "r", "s">>, <<"S", "h", "a", "r", "e", "s", " ", "O", "u", "t", "s", "t", "a", "n", "d", "i", "n", "g">>, <<"F", "u", "n", "d", " ", "D", "a", "t", "e">>, <<"A", "U", "M">>>>

\* line 1: the metadata values
MetaFull == <<<<"1", "3", "0", "6">>, <<"T">>, <<"1", "0", "0", "0">>, <<"1", "0", "0">>, <<"2", "0", "2", "6", "0", "2", "1", "7">>>>
MetaWithAum == <<<<"1", "3", "0", "6">>, <<"T">>, <<"1", "0", "0", "0">>, <<"1", "0", "0">>, <<"2", "0", "2", "6", "-", "0", "2", "-", "1", "7">>, <<"5", "0", "0", "0">>>>
MetaEmptyAum == <<<<"1", "3", "0", "6">>, <<"T">>, <<"1", "0", "0", "0">>, <<"1", "0", "0">>, <<"1", "7", "/", "0", "2", "/", "2", "0", "2", "6">>, <<>>>>
MetaDegraded == <<<<"1", "3", "0", "6">>, <<"T">>, <<"a", "b", "c">>, <<"-">>, <<"n", "/", "a">>, <<"n", "/", "a">>>>
MetaShort == <<<<"1", "3", "0", "6">>, <<"T">>, <<"1", "0", "0", "0">>, <<"1", "0", "0">>>>

\* line 3: the column headers of the holdings
ColumnsPlain == <<<<"C", "o", "d", "e">>, <<"N", "a", "m", "e">>, <<"I", "S", "I", "N">>, <<"E", "x", "c", "h", "a", "n", "g", "e">>, <<"C", "u", "r", "r", "e", "n", "c", "y">>, <<"S", "h", "a", "r", "e", "s", " ", "A", "m", "o", "u", "n", "t">>, <<"S", "t", "o", "c", "k", " ", "P", "r", "i", "c", "e">>>>
ColumnsExtended == <<<<"C", "o", "d", "e">>, <<"N", "a", "m", "e">>, <<"I", "s", "i", "n">>, <<"E", "x", "c", "h", "a", "n", "g", "e">>, <<"C", "u", "r", "r", "e", "n", "c", "y">>, <<"S", "h", "a", "r", "e", "s">>, <<"S", "t", "o", "c", "k", " ", "P", "r", "i", "c", "e">>, <<"M", "a", "r", "k", "e", "t", " ", "V", "a", "l", "u", "e">>, <<"F", "u", "t", "u", "r", "e", " ", "m", "u", "l", "t", "i", "p", "l", "i", "e", "r">>>>

\* the first lines of the texts that go on with holdings rows, each with the
\* provider tag it is submitted under
Tops ==
    { [provider |-> "ice", lines |-> <<HeaderPlain, MetaFull, BlankLine, ColumnsPlain>>],
      [provider |-> "ice", lines |-> <<HeaderPlain, MetaDegraded, BlankLine, ColumnsPlain>>],
      [provider |-> "spglobal", lines |-> <<BlankLine, HeaderPlain, MetaFull, BlankLine, ColumnsPlain>>],
      [provider |-> "spglobal", lines |-> <<HeaderAmova, MetaWithAum, BlankLine, ColumnsExtended>>],
      [provider |-> "spglobal", lines |-> <<HeaderAmova, MetaEmptyAum, BlankLine, ColumnsExtended>>],
      [provider |-> "spglobal", lines |-> <<HeaderAmova, MetaDegraded, BlankLine, ColumnsExtended>>],
      [provider |-> "solactive", lines |-> <<<<<<"C", "o", "d", "e">>, <<"1", "3", "0", "6">>>>, <<<<"C", "a", "s", "h", " ", "C", "o", "m", "p", "o", "n", "e", "n", "t">>, <<"1", "0", "0", "0">>>>, <<<<"S", "h", "a", "r", "e", "s", " ", "O", "u", "t", "s", "t", "a", "n", "d", "i", "n", "g">>, <<"1", "0", "0">>>>, <<<<"F", "u", "n", "d", " ", "D", "a", "t", "e">>, <<"2", "0", "2", "6", "0", "2", "1", "7">>>>, <<<<"N", "A", "V">>, <<"5", "0", "0", "0">>>>, BlankLine, ColumnsPlain>>],
      [provider |-> "solactive", lines |-> <<<<<<"C", "o", "d", "e">>, <<"1", "3", "0", "6">>>>, <<<<"C", "a", "s", "h", " ", "C", "o", "m", "p", "o", "n", "e", "n", "t">>, <<"a", "b", "c">>>>, <<<<"F", "u", "n", "d", " ", "D", "a", "t", "e">>, <<"n", "/", "a">>>>, BlankLine, ColumnsPlain>>] }

\* the texts without holdings rows: too few lines, too few metadata fields,
\* blank, in another dialect than the tag says, or under an unknown tag
BareTops ==
    { [provider |-> "ice", lines |-> <<HeaderPlain, MetaShort, BlankLine, ColumnsPlain>>],
      [provider |-> "ice", lines |-> <<HeaderPlain, MetaFull>>],
      [provider |-> "ice", lines |-> <<<<<<" ">>>>, BlankLine>>],
      [provider |-> "spglobal", lines |-> <<HeaderAmova, MetaShort, BlankLine, ColumnsExtended>>],
      [provider |-> "spglobal", lines |-> <<>>],
      [provider |-> "solactive", lines |-> <<HeaderPlain, MetaFull, BlankLine, ColumnsPlain>>],
      [provider |-> "bloomberg", lines |-> <<HeaderPlain, MetaFull, BlankLine, ColumnsPlain>>] }

\* the holdings rows: code, name, ISIN, exchange, currency, shares, price,
\* market value
\* an equity row with a market value that is not quantity x price
EquityRow == <<<<"7", "2", "0", "3">>, <<"T", "O", "Y", "O", "T", "A">>, <<>>, <<"T", "S", "E">>, <<"J", "P", "Y">>, <<"1", "0">>, <<"2", ".", "5">>, <<"3", "0">>>>
\* a futures row with a market value
TopixRow == <<<<>>, <<"T", "O", "P", "I", "X", " ", "2", "6", "0", "3">>, <<>>, <<"O", "S", "E">>, <<"J", "P", "Y">>, <<"3">>, <<"1", "0", "0">>, <<"9", "9", "9">>>>
\* a futures row with a ticker code, a short position and an empty market-value cell
NikkeiRow == <<<<"N", "K", "H", "6">>, <<"N", "K", "2", "2", "5", " ", "2", "6", "0", "6">>, <<>>, <<"X", "O", "S", "E">>, <<"J", "P", "Y">>, <<"-", "5">>, <<"2">>, <<>>>>
\* a futures row whose quantity and market value do not parse
JgbRow == <<<<>>, <<"J", "G", "B">>, <<>>, <<"O", "S", "E">>, <<"J", "P", "Y">>, <<"a", "b", "c">>, <<"4">>, <<"n", "/", "a">>>>
\* a row whose quantity is a NaN: int() raises on it
NanRow == <<<<"7", "2", "1", "1">>, <<"X">>, <<>>, <<"T", "S", "E">>, <<"J", "P", "Y">>, <<"n", "a", "n">>, <<"1">>, <<"1">>>>
\* a futures row that ends before the quantity column
ShortFuturesRow == <<<<>>, <<"T", "O", "P", "I", "X", " ", "2", "6", "0", "3">>, <<>>, <<"O", "S", "E">>, <<"J", "P", "Y">>>>
\* a Cash row
CashRow == <<<<"C", "a", "s", "h">>, <<>>, <<>>, <<>>, <<>>, <<"5", "0", "0">>, <<"1">>, <<"5", "0", "0">>>>

HoldingRows == { EquityRow, TopixRow, NikkeiRow, JgbRow, NanRow, ShortFuturesRow, CashRow }

\* the rows of the texts that are parsed more than once
CapRows == { EquityRow, TopixRow, NikkeiRow, JgbRow, ShortFuturesRow }

\* most holdings rows in a text
MaxHoldings == 3

\* the ETF code every text is parsed for
EtfCode == <<"1", "3", "0", "6">>

\* the day date.today() returns at the start
FirstDay == <<2026, 11, 5>>

\* most days the clock moves on
MaxTicks == 1

\* most holdings rows in a text that is parsed on several days
MaxRepeatRows == 1

\* most parse_pcf calls on one text
MaxCalls == 2

-----------------------------------------------------------------------------
(* Operations                                                               *)

\* no PCF file operation has started
\* no store is looked at
StoreIdle ==
    /\ remote = Absent
    /\ localfile = Absent
    /\ batch = <<>>

PcfIdle ==
    /\ csvrow = <<>>
    /\ verdict = FALSE
    /\ pcftext = <<>>
    /\ pcftag = ""
    /\ curdate = FirstDay
    /\ calls = <<>>
    /\ allocated = 0
    /\ StoreIdle

Init ==
    /\ PcfIdle
    /\ ts = <<>>
    /\ cr = <<>>
    /\ phase = "input"
    /\ master = NoMaster
    /\ daily = <<>>
    /\ leg = NoLeg
    /\ fp = NoPosition

AddFrom(S) ==
    /\ phase = "input"
    /\ \E r \in S :
          /\ \A q \in Range(ts) : ~SameKey(q, r)
          /\ ts' = Append(ts, r)
    /\ UNCHANGED <<cr, phase, master, daily, leg, fp, pcfVars, storeVars>>

\* one more (ETF, date) record reaches the table, in any row position order
AddRecord ==
    /\ Len(ts) < MaxRows
    /\ AddFrom(AllRows)

\* a record of the worked series reaches the table
AddExampleRecord == AddFrom(ExampleRows)

ComputeCR ==
    /\ phase = "input"
    /\ cr' = compute_creation_redemption(ts)
    /\ phase' = "derived"
    /\ UNCHANGED <<ts, master, daily, leg, fp, pcfVars, storeVars>>

Next == AddRecord \/ ComputeCR

Spec == Init /\ [][Next]_vars

NextExample == AddExampleRecord \/ ComputeCR

SpecExample == Init /\ [][NextExample]_vars

\* the flow table handed to the aggregation views, built in the (etf_code, date)
\* order in which compute_creation_redemption returns it
InitAgg ==
    /\ PcfIdle
    /\ ts = <<>>
    /\ cr = <<>>
    /\ phase = "flows"
    /\ master = NoMaster
    /\ daily = <<>>
    /\ leg = NoLeg
    /\ fp = NoPosition

AddFlow ==
    /\ phase = "flows"
    /\ Len(cr) < MaxObs
    /\ \E o \in AllFlowObs :
          /\ cr # <<>> => KeyLess(cr[Len(cr)], o)
          /\ cr' = Append(cr, o)
    /\ UNCHANGED <<ts, phase, master, daily, leg, fp, pcfVars, storeVars>>

\* the dashboard renders one section per category from the same flow table
AggregateCategories ==
    /\ phase = "flows"
    /\ \E m \in Masters :
          /\ master' = m
          /\ daily' = [c \in ViewCategories |-> aggregate_by_category(cr, c, m)]
    /\ phase' = "aggregated"
    /\ UNCHANGED <<ts, cr, leg, fp, pcfVars, storeVars>>

NextAgg == AddFlow \/ AggregateCategories

SpecAgg == InitAgg /\ [][NextAgg]_vars

\* a futures row is read cell by cell, then normalised
InitFut ==
    /\ PcfIdle
    /\ ts = <<>>
    /\ cr = <<>>
    /\ phase = "row"
    /\ master = NoMaster
    /\ daily = <<>>
    /\ leg = NoLeg
    /\ fp = NoPosition

\* the name cell grows by one piece
AppendToken ==
    /\ phase = "row"
    /\ leg.raw.type = "str"
    /\ Len(leg.parts) < MaxTokens
    /\ \E t \in Vocabulary :
          /\ Len(leg.raw.text) + Len(t) <= MaxNameLen
          /\ leg' = [leg EXCEPT !.parts = Append(@, t),
                                !.raw = StrValue(Flatten(Append(leg.parts, t)))]
    /\ UNCHANGED <<ts, cr, phase, master, daily, fp, pcfVars, storeVars>>

\* the name cell holds no text
ReadNonText ==
    /\ phase = "row"
    /\ leg.parts = <<>>
    /\ leg.raw.type = "str"
    /\ \E v \in NonTextCells : leg' = [leg EXCEPT !.raw = v]
    /\ UNCHANGED <<ts, cr, phase, master, daily, fp, pcfVars, storeVars>>

\* the parser reads the other cells and calls normalize_futures; the
\* "Future multiplier" cell is located but not passed on
NormalizeLeg ==
    /\ phase = "row"
    /\ \E v \in CellVals :
          /\ leg' = [leg EXCEPT !.quantity = v[1], !.market_value = v[2],
                                !.future_multiplier = v[3]]
          /\ fp' = normalize_futures(leg.raw, v[1], v[2])
    /\ phase' = "normalized"
    /\ UNCHANGED <<ts, cr, master, daily, pcfVars, storeVars>>

NextFut == AppendToken \/ ReadNonText \/ NormalizeLeg

SpecFut == InitFut /\ [][NextFut]_vars

\* the name cell grows by one piece of a variant name
AppendPiece ==
    /\ phase = "row"
    /\ Len(leg.parts) < MaxPieces
    /\ \E t \in VariantVocabulary :
          leg' = [leg EXCEPT !.parts = Append(@, t),
                             !.raw = StrValue(Flatten(Append(leg.parts, t)))]
    /\ UNCHANGED <<ts, cr, phase, master, daily, fp, pcfVars, storeVars>>

NextVariant == AppendPiece \/ NormalizeLeg

SpecVariant == InitFut /\ [][NextVariant]_vars

\* a holdings row is read cell by cell, then classified
InitRow ==
    /\ ts = <<>>
    /\ cr = <<>>
    /\ phase = "cells"
    /\ master = NoMaster
    /\ daily = <<>>
    /\ leg = NoLeg
    /\ fp = NoPosition
    /\ PcfIdle

AppendCell ==
    /\ phase = "cells"
    /\ Len(csvrow) < MaxCells
    /\ \E c \in CellsAt(Len(csvrow) + 1) : csvrow' = Append(csvrow, c)
    /\ UNCHANGED <<phase, verdict, flowVars, parseVars, storeVars>>

ClassifyRow ==
    /\ phase = "cells"
    /\ verdict' = is_futures_row(csvrow)
    /\ phase' = "classified"
    /\ UNCHANGED <<csvrow, flowVars, parseVars, storeVars>>

NextRow == AppendCell \/ ClassifyRow

SpecRow == InitRow /\ [][NextRow]_vars

\* a text arrives under a provider tag, holdings row by holdings row, and is
\* parsed
InitPcf ==
    /\ ts = <<>>
    /\ cr = <<>>
    /\ phase = "text"
    /\ master = NoMaster
    /\ daily = <<>>
    /\ leg = NoLeg
    /\ fp = NoPosition
    /\ csvrow = <<>>
    /\ verdict = FALSE
    /\ \E top \in Tops \cup BareTops : pcftext = top.lines /\ pcftag = top.provider
    /\ curdate = FirstDay
    /\ calls = <<>>
    /\ allocated = 0
    /\ StoreIdle

\* one more holdings row, from rows, under a text of fewer than most
AppendRowFrom(rows, most) ==
    /\ phase = "text"
    /\ \E top \in Tops :
          /\ pcftag = top.provider
          /\ Len(pcftext) >= Len(top.lines)
          /\ Len(pcftext) < Len(top.lines) + most
          /\ SubSeq(pcftext, 1, Len(top.lines)) = top.lines
    /\ \E r \in rows : pcftext' = Append(pcftext, r)
    /\ UNCHANGED <<phase, pcftag, curdate, calls, allocated, csvrow, verdict, flowVars, storeVars>>

AppendHolding == AppendRowFrom(HoldingRows, MaxHoldings)

AppendCapRow == AppendRowFrom(CapRows, MaxHoldings)

\* one parse_pcf call: the dialect parser builds its working list and the
\* slice it hands to the record, the newest list object
CallEntry(outcome, n) ==
    [ outcome |-> outcome, list_id |-> IF outcome.record # None THEN n + 2 ELSE 0 ]

Call ==
    /\ calls' = Append(calls, CallEntry(parse_pcf(pcftext, EtfCode, pcftag, curdate), allocated))
    /\ allocated' = IF calls'[Len(calls')].list_id = 0 THEN allocated ELSE allocated + 2

ParsePcf ==
    /\ phase = "text"
    /\ Call
    /\ phase' = "parsed"
    /\ UNCHANGED <<pcftext, pcftag, curdate, csvrow, verdict, flowVars, storeVars>>

\* parse_pcf on a text that may have been parsed before
ParseAgain ==
    /\ phase \in {"text", "parsed"}
    /\ Len(calls) < MaxCalls
    /\ Call
    /\ phase' = "parsed"
    /\ UNCHANGED <<pcftext, pcftag, curdate, csvrow, verdict, flowVars, storeVars>>

\* a worksheet row of the spreadsheet to migrate
InitSheet ==
    /\ ts = <<>>
    /\ cr = <<>>
    /\ phase = "sheet"
    /\ master = NoMaster
    /\ daily = <<>>
    /\ leg = NoLeg
    /\ fp = NoPosition
    /\ \E d \in SheetDates : csvrow = SheetLead(d)
    /\ verdict = FALSE
    /\ pcftext = <<>>
    /\ pcftag = "excel"
    /\ curdate = FirstDay
    /\ calls = <<>>
    /\ allocated = 0
    /\ StoreIdle

AppendSlot ==
    /\ phase = "sheet"
    /\ Len(csvrow) < 6 + 3 * MaxSlots
    /\ \E slot \in SheetSlots : csvrow' = csvrow \o slot
    /\ UNCHANGED <<phase, verdict, flowVars, parseVars, storeVars>>

\* one pass of the loop of import_sheet: the row's list is made at line 151
\* and handed to the record as it is
ImportRow ==
    /\ phase \in {"sheet", "imported"}
    /\ Len(calls) < MaxCalls
    /\ calls' = Append(calls, [ outcome |-> import_row(csvrow, EtfCode),
                                list_id |-> IF to_date(SheetCell(csvrow, 0)) # None
                                            THEN allocated + 1 ELSE 0 ])
    /\ allocated' = IF to_date(SheetCell(csvrow, 0)) # None THEN allocated + 1 ELSE allocated
    /\ phase' = "imported"
    /\ UNCHANGED <<pcftext, pcftag, curdate, csvrow, verdict, flowVars, storeVars>>

InitRecords == InitPcf \/ InitSheet

NextPcf == AppendHolding \/ ParsePcf

SpecPcf == InitPcf /\ [][NextPcf]_vars

\* the day after d
NextDay(d) ==
    IF d[3] < DaysIn(d[1], d[2]) THEN <<d[1], d[2], d[3] + 1>>
    ELSE IF d[2] < 12 THEN <<d[1], d[2] + 1, 1>>
    ELSE <<d[1] + 1, 1, 1>>

RECURSIVE DaysAfter(_, _)
DaysAfter(d, n) == IF n = 0 THEN d ELSE NextDay(DaysAfter(d, n - 1))

\* midnight passes: date.today() returns the next day from now on
Tick ==
    /\ phase \in {"text", "parsed"}
    /\ \E n \in 0..(MaxTicks - 1) : curdate = DaysAfter(FirstDay, n)
    /\ curdate' = NextDay(curdate)
    /\ UNCHANGED <<phase, pcftext, pcftag, calls, allocated, csvrow, verdict, flowVars, storeVars>>

AppendOne == AppendRowFrom(HoldingRows, MaxRepeatRows)

NextTwice == AppendOne \/ Tick \/ ParseAgain

SpecTwice == InitPcf /\ [][NextTwice]_vars

\* the store before a run: nothing stored yet, a local file only, or the
\* same table in R2 and in the local file
InitStore ==
    /\ ts = <<>>
    /\ cr = <<>>
    /\ phase = "batch"
    /\ master = NoMaster
    /\ daily = <<>>
    /\ leg = NoLeg
    /\ fp = NoPosition
    /\ csvrow = <<>>
    /\ verdict = FALSE
    /\ pcftext = <<>>
    /\ pcftag = "store"
    /\ curdate = FirstDay
    /\ calls = <<>>
    /\ allocated = 0
    /\ batch = <<>>
    /\ \/ remote = Absent /\ localfile = Absent
       \/ \E t \in { u \in StoredTables(MaxStored) : IsStored(u) } :
             /\ localfile = Kept(t)
             /\ remote \in {Absent, Kept(t)}

AppendBatchRow ==
    /\ phase = "batch"
    /\ Len(batch) < MaxBatch
    /\ \E r \in StoreRows : batch' = Append(batch, r)
    /\ UNCHANGED <<phase, remote, localfile, csvrow, verdict, flowVars, parseVars>>

\* append_daily(batch), lines 104-137, with save_timeseries (35-51): the
\* local file is written, and R2 takes the table when r2_put succeeds
AppendDaily ==
    /\ phase \in {"batch", "stored"}
    /\ Len(calls) < MaxCalls
    /\ phase' = "stored"
    /\ \E put_ok \in BOOLEAN :
          /\ IF batch = <<>>
             THEN UNCHANGED <<remote, localfile>>
             ELSE /\ localfile' = Kept(Combined(Existing(remote, localfile), batch))
                  /\ remote' = IF put_ok THEN Kept(Combined(Existing(remote, localfile), batch))
                                ELSE remote
          /\ calls' = Append(calls, [ before |-> Existing(remote, localfile),
                                      saved |-> batch # <<>>,
                                      put_ok |-> put_ok,
                                      after |-> Existing(remote', localfile') ])
    /\ UNCHANGED <<batch, csvrow, verdict, pcftext, pcftag, curdate, allocated, flowVars>>

NextStore == AppendBatchRow \/ AppendDaily

SpecStore == InitStore /\ [][NextStore]_vars

\* the master store before the first update_etf_master: nothing in R2 and no
\* local file
InitMaster ==
    /\ ts = <<>>
    /\ cr = <<>>
    /\ phase = "master"
    /\ master = NoMaster
    /\ daily = <<>>
    /\ leg = NoLeg
    /\ fp = NoPosition
    /\ csvrow = <<>>
    /\ verdict = FALSE
    /\ pcftext = <<>>
    /\ pcftag = "master"
    /\ curdate = FirstDay
    /\ calls = <<>>
    /\ allocated = 0
    /\ batch = <<>>
    /\ remote = Absent
    /\ localfile = Absent

\* the caller builds the table of one call, daily_fetch.py lines 96-105
AppendMasterRow ==
    /\ phase \in {"master", "mastered"}
    /\ Len(calls) < MaxCalls
    /\ Len(batch) < MaxBatch
    /\ \E r \in MasterRows : batch' = Append(batch, r)
    /\ UNCHANGED <<phase, remote, localfile, csvrow, verdict, flowVars, parseVars>>

\* update_etf_master(batch), lines 175-183, with save_etf_master (143-154):
\* the local file is written, and R2 takes the text when r2_put succeeds;
\* daily_fetch.py calls it with a table that has rows (line 94)
UpdateEtfMaster ==
    /\ phase \in {"master", "mastered"}
    /\ Len(calls) < MaxCalls
    /\ batch # <<>>
    /\ phase' = "mastered"
    /\ \E put_ok \in BOOLEAN :
          /\ localfile' = Kept(update_etf_master(remote, localfile, batch))
          /\ remote' = IF put_ok THEN Kept(update_etf_master(remote, localfile, batch)) ELSE remote
          /\ calls' = Append(calls, [ new_df |-> batch, put_ok |-> put_ok ])
    /\ batch' = <<>>
    /\ UNCHANGED <<csvrow, verdict, pcftext, pcftag, curdate, allocated, flowVars>>

NextMaster == AppendMasterRow \/ UpdateEtfMaster

SpecMaster == InitMaster /\ [][NextMaster]_vars

\* the table handed to compute_futures_exposure: all the columns of
\* records_to_dataframe that the function reads, no record yet
InitExposure ==
    /\ ts = DataFrame(ExposureColumns, <<>>)
    /\ cr = <<>>
    /\ phase = "records"
    /\ master = NoMaster
    /\ daily = <<>>
    /\ leg = NoLeg
    /\ fp = NoPosition
    /\ csvrow = <<>>
    /\ verdict = FALSE
    /\ pcftext = <<>>
    /\ pcftag = "exposure"
    /\ curdate = FirstDay
    /\ calls = <<>>
    /\ allocated = 0
    /\ batch = <<>>
    /\ remote = Absent
    /\ localfile = Absent

\* one more record of the ETF in the table, one per date
AddExposureRecord ==
    /\ phase = "records"
    /\ Len(ts.rows) < MaxRecords
    /\ \E nav \in ExposureNavs, a \in FirstLegs, b \in SecondLegs :
          ts' = [ts EXCEPT !.rows = Append(@, ExposureInput(Len(ts.rows) + 1, nav, a, b))]
    /\ UNCHANGED <<cr, phase, master, daily, leg, fp, pcfVars, storeVars>>

\* futures_df = compute_futures_exposure(filtered_df), app.py line 228
ComputeExposure ==
    /\ phase = "records"
    /\ phase' = "exposed"
    /\ daily' = compute_futures_exposure(ts)
    /\ UNCHANGED <<ts, cr, master, leg, fp, pcfVars, storeVars>>

NextExposure == AddExposureRecord \/ ComputeExposure

SpecExposure == InitExposure /\ [][NextExposure]_vars

\* a table with rows to come, short of one column, and the entry point it
\* goes to
InitColumns ==
    /\ cr = <<>>
    /\ phase = "table"
    /\ master = NoMaster
    /\ daily = <<>>
    /\ leg = NoLeg
    /\ fp = NoPosition
    /\ csvrow = <<>>
    /\ verdict = FALSE
    /\ pcftext = <<>>
    /\ curdate = FirstDay
    /\ calls = <<>>
    /\ allocated = 0
    /\ batch = <<>>
    /\ remote = Absent
    /\ localfile = Absent
    /\ pcftag \in EntryPoints
    /\ \E c \in TableColumns : ts = DataFrame(TableColumns \ {c}, <<>>)

AddTableRow ==
    /\ phase = "table"
    /\ Len(ts.rows) < MaxRecords
    /\ \E r \in TableRows(Len(ts.rows) + 1) : ts' = [ts EXCEPT !.rows = Append(@, r)]
    /\ UNCHANGED <<cr, phase, master, daily, leg, fp, pcfVars, storeVars>>

\* the entry point is called on the table, for a sidebar category
CallEntryPoint ==
    /\ phase = "table"
    /\ phase' = "called"
    /\ \E category \in {"topix", "nikkei225"} : daily' = EntryResult(pcftag, ts, category)
    /\ UNCHANGED <<ts, cr, master, leg, fp, pcfVars, storeVars>>

NextColumns == AddTableRow \/ CallEntryPoint

SpecColumns == InitColumns /\ [][NextColumns]_vars

\* a record as a parser or the importer returned it
InitUnit ==
    /\ ts = <<>>
    /\ cr = <<>>
    /\ phase = "record"
    /\ master = NoMaster
    /\ daily = <<>>
    /\ leg = NoLeg
    /\ fp = NoPosition
    /\ csvrow = <<>>
    /\ verdict = FALSE
    /\ pcftext = <<>>
    /\ pcftag = "record"
    /\ curdate = FirstDay
    /\ allocated = 1
    /\ batch = <<>>
    /\ remote = Absent
    /\ localfile = Absent
    /\ \E nav \in UnitNavs, shares \in UnitShares :
          calls = << [ outcome |-> Returned(PCFRecord(EtfCode, FirstDay, nav, shares,
                                                       None, None, None, <<>>)),
                       list_id |-> 1 ] >>

\* records_to_dataframe([record]), lines 252-312: the row reads
\* r.nav_per_unit (line 268)
RecordsToDataframe ==
    /\ phase = "record"
    /\ phase' = "frame"
    /\ batch' = <<DataframeRow(calls[1].outcome.record)>>
    /\ UNCHANGED <<remote, localfile, csvrow, verdict, flowVars, parseVars>>

NextUnit == RecordsToDataframe

SpecUnit == InitUnit /\ [][NextUnit]_vars

\* the store before the first append_daily: nothing in R2, no local file
InitAppend ==
    /\ ts = <<>>
    /\ cr = <<>>
    /\ phase = "batch"
    /\ master = NoMaster
    /\ daily = <<>>
    /\ leg = NoLeg
    /\ fp = NoPosition
    /\ csvrow = <<>>
    /\ verdict = FALSE
    /\ pcftext = <<>>
    /\ pcftag = "append"
    /\ curdate = FirstDay
    /\ calls = <<>>
    /\ allocated = 0
    /\ batch = <<>>
    /\ remote = Absent
    /\ localfile = Absent

\* one more row of the table of the next call, excel_importer.py line 305
AppendNextRow ==
    /\ Len(calls) < MaxCalls
    /\ AppendBatchRow

\* append_daily(batch) of a day's table, lines 104-137, with save_timeseries
\* (35-51); the next call comes with a table of its own
AppendDay ==
    /\ phase = "batch"
    /\ Len(calls) < MaxCalls
    /\ batch # <<>>
    /\ \E put_ok \in BOOLEAN :
          /\ localfile' = Kept(Combined(Existing(remote, localfile), batch))
          /\ remote' = IF put_ok THEN Kept(Combined(Existing(remote, localfile), batch))
                        ELSE remote
          /\ calls' = Append(calls, [ new_df |-> batch, put_ok |-> put_ok ])
    /\ batch' = <<>>
    /\ UNCHANGED <<phase, csvrow, verdict, pcftext, pcftag, curdate, allocated, flowVars>>

NextAppend == AppendNextRow \/ AppendDay

SpecAppend == InitAppend /\ [][NextAppend]_vars

NextCap == AppendCapRow \/ ParseAgain \/ AppendSlot \/ ImportRow

SpecCap == InitRecords /\ [][NextCap]_vars

-----------------------------------------------------------------------------
(* Creation / redemption: properties                                        *)

Derived == phase = "derived"

\* a and b are records of one ETF with no record of that ETF between them
Consecutive(a, b) ==
    /\ a.etf_code = b.etf_code
    /\ a.date < b.date
    /\ \A q \in Range(ts) : q.etf_code = a.etf_code => ~(a.date < q.date /\ q.date < b.date)

ObsFor(r) == { i \in 1..Len(cr) : cr[i].etf_code = r.etf_code /\ cr[i].date = r.date }

Present(x) == x[2] > 0

\* (b.shares - a.shares) * (a.nav / a.shares) in exact arithmetic, for integer inputs;
\* missing when an operand is missing or a.shares is 0
PriorPricedFlow(a, b) ==
    IF /\ Present(a.nav) /\ Present(a.shares_outstanding) /\ Present(b.shares_outstanding)
       /\ a.shares_outstanding[1] # 0
    THEN Rat((b.shares_outstanding[1] - a.shares_outstanding[1]) * a.nav[1],
             a.shares_outstanding[1])
    ELSE Null

SameDayPricedFlow(a, b) ==
    IF /\ Present(b.nav) /\ Present(a.shares_outstanding) /\ Present(b.shares_outstanding)
       /\ b.shares_outstanding[1] # 0
    THEN Rat((b.shares_outstanding[1] - a.shares_outstanding[1]) * b.nav[1],
             b.shares_outstanding[1])
    ELSE Null

\* C1: for every pair of date-consecutive records of an ETF, whatever the row
\* order of the table, the flow reported for the later record is
\* (later shares - earlier shares) x (earlier NAV / earlier shares); when both
\* share counts are present the later record has exactly one observation.
C1_FlowPricedOffPriorRecord ==
    Derived =>
        \A a \in Range(ts), b \in Range(ts) :
            Consecutive(a, b) =>
                /\ \A i \in ObsFor(b) : cr[i].flow_amount = PriorPricedFlow(a, b)
                /\ (Present(a.shares_outstanding) /\ Present(b.shares_outstanding))
                      => Cardinality(ObsFor(b)) = 1

\* a derived table whose input rows were out of date order and where pricing
\* off the later record's own per-unit NAV would give another amount
C1_Witness ==
    /\ Derived
    /\ \E i \in 1..Len(ts), j \in 1..Len(ts) :
          /\ i < j
          /\ Consecutive(ts[j], ts[i])
          /\ ObsFor(ts[i]) # {}
          /\ PriorPricedFlow(ts[j], ts[i]) # Null
          /\ PriorPricedFlow(ts[j], ts[i]) # SameDayPricedFlow(ts[j], ts[i])

ExampleLoaded == Derived /\ Range(ts) = ExampleRows

ObsOfDay(d) == { i \in 1..Len(cr) : cr[i].date = d }

DayIs(d, amount, type) ==
    /\ Cardinality(ObsOfDay(d)) = 1
    /\ \A i \in ObsOfDay(d) : cr[i].flow_amount = Num(amount) /\ cr[i].flow_type = type

\* C2 as stated: shares [100, 120, 120, 90] and per-unit NAV [10, 11, 12, 13]
\* give no observation for day 1, 220 creation on day 2, 0 none on day 3 and
\* -360 redemption on day 4.
C2_AsStated ==
    ExampleLoaded =>
        /\ ObsOfDay(1) = {}
        /\ DayIs(2, 220, "creation")
        /\ DayIs(3, 0, "none")
        /\ DayIs(4, -360, "redemption")

\* C2 amended: day 2 is priced off day 1's per-unit NAV, (120 - 100) x 10 = 200;
\* the other days are as stated.
C2_ExampleSeries ==
    ExampleLoaded =>
        /\ ObsOfDay(1) = {}
        /\ DayIs(2, 200, "creation")
        /\ DayIs(3, 0, "none")
        /\ DayIs(4, -360, "redemption")

\* the worked series, loaded in an order other than by date, has been derived
C2_Witness ==
    /\ ExampleLoaded
    /\ Len(cr) = 3
    /\ ts[1].date # 1

RecordsOf(c) == { r \in Range(ts) : r.etf_code = c }

IsFirstOf(r) == \A q \in RecordsOf(r.etf_code) : r.date <= q.date

\* C3 as stated: the first record of an ETF has no observation, every other
\* record has exactly one, and a record whose share delta is undefined is
\* emitted with flow type none.
C3_OneObservationPerLaterRecord ==
    Derived =>
        \A r \in Range(ts) :
            IF IsFirstOf(r) THEN ObsFor(r) = {}
            ELSE /\ Cardinality(ObsFor(r)) = 1
                 /\ \A i \in ObsFor(r) : IsNull(cr[i].shares_change) => cr[i].flow_type = "none"

\* C4 as stated: every observation carries the prior record's per-unit NAV,
\* so flow_amount = shares_change x the nav_per_unit of the same observation.
C4_ObservationCarriesPriorNav ==
    Derived =>
        \A i \in 1..Len(cr) :
            /\ cr[i].flow_amount = FMul(cr[i].shares_change, cr[i].nav_per_unit)
            /\ \A a \in Range(ts), b \in Range(ts) :
                  (Consecutive(a, b) /\ SameKey(b, cr[i]))
                      => cr[i].nav_per_unit = ReplaceInf(FDiv(a.nav, a.shares_outstanding))

ZeroOrMissing(x) == IsNull(x) \/ x = Num(0)

-----------------------------------------------------------------------------
(* Category aggregation: properties                                         *)

Aggregated == phase = "aggregated"

RECURSIVE SumOfFlows(_)
SumOfFlows(I) ==
    IF I = {} THEN Num(0)
    ELSE LET i == CHOOSE j \in I : TRUE
         IN  FAdd(cr[i].flow_amount, SumOfFlows(I \ {i}))

\* the flow observations of the members of category c on date d
MemberObs(c, d) ==
    { i \in 1..Len(cr) : cr[i].etf_code \in resolve_codes(c, cr, master) /\ cr[i].date = d }

CreationOn(c, d) == SumOfFlows({ i \in MemberObs(c, d) : IsPositive(cr[i].flow_amount) })
RedemptionOn(c, d) == SumOfFlows({ i \in MemberObs(c, d) : IsNegative(cr[i].flow_amount) })

RECURSIVE NetUpTo(_, _)
NetUpTo(c, d) ==
    IF d = 0 THEN Num(0)
    ELSE FAdd(NetUpTo(c, d - 1), FAdd(CreationOn(c, d), RedemptionOn(c, d)))

RowsOn(c, d) == { k \in 1..Len(daily[c]) : daily[c][k].date = d }

\* C6: for every category and every date on which a member has a flow
\* observation there is one row, with total_creation the sum of the members'
\* positive flows, total_redemption the sum of their negative flows, net_flow
\* their sum, and cumulative_flow the sum of net_flow over the dates up to it.
C6_DailyTotals ==
    Aggregated =>
        \A c \in ViewCategories, d \in Dates :
            IF MemberObs(c, d) = {} THEN RowsOn(c, d) = {}
            ELSE /\ Cardinality(RowsOn(c, d)) = 1
                 /\ \A k \in RowsOn(c, d) :
                       /\ daily[c][k].total_creation = CreationOn(c, d)
                       /\ daily[c][k].total_redemption = RedemptionOn(c, d)
                       /\ daily[c][k].net_flow = FAdd(CreationOn(c, d), RedemptionOn(c, d))
                       /\ daily[c][k].cumulative_flow = NetUpTo(c, d)

\* a category with two members flowing in opposite directions on one date and
\* a later reported date whose running total differs from its own net flow
C6_Witness ==
    /\ Aggregated
    /\ \E c \in ViewCategories, k \in 1..MaxObs :
          /\ k + 1 <= Len(daily[c])
          /\ IsPositive(daily[c][k].total_creation)
          /\ IsNegative(daily[c][k].total_redemption)
          /\ daily[c][k].net_flow # Num(0)
          /\ daily[c][k + 1].net_flow # Num(0)
          /\ daily[c][k + 1].cumulative_flow # daily[c][k + 1].net_flow

\* net_flow of category c on date d; 0 when the category has no row for d
NetOn(c, d) ==
    IF RowsOn(c, d) = {} THEN Num(0)
    ELSE daily[c][CHOOSE k \in RowsOn(c, d) : TRUE].net_flow

\* the sum over the categories of P of the nets given by the table net
RECURSIVE SumNets(_, _, _)
SumNets(net, P, d) ==
    IF P = {} THEN Num(0)
    ELSE LET c == CHOOSE x \in P : TRUE
         IN  FAdd(net[c][d], SumNets(net, P \ {c}, d))

MembersPresent(c) == resolve_codes(c, cr, master) \cap CodesIn(cr)

\* the sub-categories of P split the codes of the flow table (mp: category |->
\* its codes present in the table): none twice, none left out
Partitions(mp, P) ==
    /\ \A c1 \in P, c2 \in P : c1 # c2 => mp[c1] \cap mp[c2] = {}
    /\ UNION { mp[c] : c \in P } = CodesIn(cr)

SubCategories == ViewCategories \ {"all"}

\* C7: for every set of sub-categories that partitions the codes of the flow
\* table and every date, the sub-categories' net flows add up to the net flow
\* of the "all" category.
C7_PartitionAddsUpToAll ==
    Aggregated =>
        LET mp == [c \in SubCategories |-> MembersPresent(c)]
            net == [c \in ViewCategories |-> [d \in Dates |-> NetOn(c, d)]]
        IN  \A P \in SUBSET SubCategories :
                Partitions(mp, P) =>
                    \A d \in Dates : SumNets(net, P, d) = net["all"][d]

\* two sub-categories that partition the table both move on a date on which
\* the "all" category has a non-zero net flow
C7_Witness ==
    /\ Aggregated
    /\ \E P \in SUBSET SubCategories, d \in Dates :
          /\ Cardinality(P) >= 2
          /\ Partitions([c \in SubCategories |-> MembersPresent(c)], P)
          /\ \A c \in P : NetOn(c, d) # Num(0)
          /\ NetOn("all", d) # Num(0)

-----------------------------------------------------------------------------
(* Futures normaliser: properties                                           *)

Normalized == phase = "normalized"

\* the row's name cell was text, so the name went through the rule list
TextName == leg.raw.type = "str" /\ leg.raw.truthy

\* the string the rules are searched in
Cleaned == Strip(RemoveMojibake(fp.raw_name))

RuleMatches(k) == Search(FUTURES_PATTERNS[k].pat, Cleaned, TRUE)

ExampleOptionName == <<"N", "K", "2", "2", "5", ".", "O", "P", ".", "C", "A", "L", "L", " ", "M", "A", "R", ".", "2", "0", "2", "6">>

\* C8: the type returned is that of the first rule of FUTURES_PATTERNS, in list
\* order, that matches; a name matched by an option rule and by the bare NK225
\* rule gets the option type, and "NK225.OP.CALL MAR.2026" is a call option
\* with contract month "2603".
C8_FirstRuleWins ==
    (Normalized /\ TextName) =>
        /\ \A k \in 1..Len(FUTURES_PATTERNS) :
              (RuleMatches(k) /\ \A j \in 1..(k - 1) : ~RuleMatches(j))
                  => fp.futures_type = FUTURES_PATTERNS[k].type
        /\ (RuleMatches(1) /\ RuleMatches(8)) => fp.futures_type = "NK225_OPTION_CALL"
        /\ fp.raw_name = ExampleOptionName
              => /\ fp.futures_type = "NK225_OPTION_CALL"
                 /\ fp.contract_month = <<"2", "6", "0", "3">>

\* the example name has been normalised; both the call rule and the bare
\* NK225 rule match it
C8_Witness ==
    /\ Normalized
    /\ TextName
    /\ fp.raw_name = ExampleOptionName
    /\ RuleMatches(1)
    /\ RuleMatches(8)
    /\ fp.futures_type = "NK225_OPTION_CALL"

\* C9: whatever the name cell holds, normalize_futures returns a position
\* whose multiplier is the FUTURES_MULTIPLIERS entry of its type; the type is
\* UNKNOWN with multiplier 1 when the cell is empty, not text, or matches no
\* rule; quantity and market value are passed through and the vendor's
\* "Future multiplier" cell plays no part.
C9_MultiplierFromTable ==
    Normalized =>
        /\ fp.futures_type \in DOMAIN FUTURES_MULTIPLIERS
        /\ fp.multiplier = FUTURES_MULTIPLIERS[fp.futures_type]
        /\ (~TextName \/ \A k \in 1..Len(FUTURES_PATTERNS) : ~RuleMatches(k))
              => fp.futures_type = "UNKNOWN" /\ fp.multiplier = 1
        /\ fp.quantity = leg.quantity
        /\ fp.market_value = leg.market_value

\* a row with a vendor multiplier of 500 was normalised to a known type whose
\* table multiplier is another number
C9_Witness ==
    /\ Normalized
    /\ leg.future_multiplier = 500
    /\ fp.futures_type = "NK225_OPTION_CALL"
    /\ fp.multiplier = 1000

\* the five patterns of the contract-month cascade, in the claimed order; the
\* bare four-digit pattern counts only with year 20..35 and month 1..12
MonthPatternMatches(k, n) ==
    CASE k = 1 -> Search(RE_OPTION_MONTH, n, TRUE)
      [] k = 2 -> Search(RE_CONTRACT_MMM_YYYY, n, TRUE)
      [] k = 3 -> Search(RE_CONTRACT_MMM_YY, n, TRUE)
      [] k = 4 -> Search(RE_CONTRACT_YYYYMM, n, FALSE)
      [] k = 5 -> \E i \in Starts(RE_CONTRACT_YYMM, n, FALSE) :
                      /\ Int2(Slice(n, i, i + 1)) \in 20..35
                      /\ Int2(Slice(n, i + 2, i + 3)) \in 1..12

MonthPatternValue(k, n) ==
    CASE k = 1 -> OptionMonthAt(n, SetMin(Starts(RE_OPTION_MONTH, n, TRUE)))
      [] k = 2 -> MmmYyyyAt(n, SetMin(Starts(RE_CONTRACT_MMM_YYYY, n, TRUE)))
      [] k = 3 -> MmmYyAt(n, SetMin(Starts(RE_CONTRACT_MMM_YY, n, TRUE)))
      [] k = 4 -> YyyymmAt(n, SetMin(Starts(RE_CONTRACT_YYYYMM, n, FALSE)))
      [] k = 5 ->
            LET i == SetMin({ j \in Starts(RE_CONTRACT_YYMM, n, FALSE) :
                                /\ Int2(Slice(n, j, j + 1)) \in 20..35
                                /\ Int2(Slice(n, j + 2, j + 3)) \in 1..12 })
            IN  Slice(n, i, i + 3)

-----------------------------------------------------------------------------
(* Row classifier: properties                                               *)

Classified == phase = "classified"

\* the code cell is empty once stripped
CodeEmpty == Strip(Cell(csvrow, 0)) = <<>>

\* candidate position idx holds OSE or XOSE
HoldsFuturesExchange(idx) == ExchangeValue(csvrow, idx) \in FuturesExchanges

\* C11 as stated: an OSE/XOSE token in either candidate position makes a row
\* with an empty code cell a futures row, whatever the other position holds
C11_AsStated ==
    (Classified /\ Len(csvrow) >= 3 /\ CodeEmpty
       /\ (HoldsFuturesExchange(3) \/ HoldsFuturesExchange(4)))
        => verdict

\* C11: a row of at least 3 cells with an empty code cell is a futures row
\* when the first candidate position (3, then 4) holding a recognised
\* exchange token holds OSE or XOSE, whatever the name cell contains.
C11_FirstRecognisedExchange ==
    (Classified /\ Len(csvrow) >= 3 /\ CodeEmpty
       /\ (\/ HoldsFuturesExchange(3)
           \/ ExchangeValue(csvrow, 3) \notin KnownExchanges /\ HoldsFuturesExchange(4)))
        => verdict

\* a row with no code, a name without any futures keyword, nothing recognised
\* in position 3 and XOSE in position 4 was classified as futures
C11_Witness ==
    /\ Classified
    /\ Len(csvrow) = 5
    /\ CodeEmpty
    /\ ~NameHasFuturesKeyword(UpperStr(Strip(Cell(csvrow, 1))))
    /\ ExchangeValue(csvrow, 3) \notin KnownExchanges
    /\ HoldsFuturesExchange(4)
    /\ verdict

\* 2 to 4 letters followed by exactly 1 digit
ShortTicker(code) ==
    /\ Len(code) \in 3..5
    /\ code[Len(code)] \in Digits
    /\ \A i \in 1..(Len(code) - 1) : code[i] \in Letters

\* C12: a row of at least 3 cells with a non-empty code cell is a futures row
\* if and only if a candidate exchange position holds OSE or XOSE and the code
\* is 2 to 4 letters followed by exactly 1 digit.
C12_TickerRowsAreFutures ==
    (Classified /\ Len(csvrow) >= 3 /\ ~CodeEmpty)
        => (verdict <=> /\ (HoldsFuturesExchange(3) \/ HoldsFuturesExchange(4))
                        /\ ShortTicker(Strip(Cell(csvrow, 0))))

\* C13: a row of fewer than 3 cells is never a futures row; a row with an
\* empty code cell and no OSE/XOSE token in position 3 or 4 is a futures row
\* if and only if its upper-cased name matches one of the keyword patterns.
C13_ShortRowsAndKeywordRows ==
    Classified =>
        /\ Len(csvrow) < 3 => ~verdict
        /\ (Len(csvrow) >= 3 /\ CodeEmpty
              /\ ~HoldsFuturesExchange(3) /\ ~HoldsFuturesExchange(4))
             => (verdict <=> NameHasFuturesKeyword(UpperStr(Strip(Cell(csvrow, 1)))))

\* a two-cell row whose name carries a futures keyword was classified as equity
C13_Witness ==
    /\ Classified
    /\ Len(csvrow) = 2
    /\ CodeEmpty
    /\ NameHasFuturesKeyword(UpperStr(Strip(Cell(csvrow, 1))))
    /\ ~verdict

-----------------------------------------------------------------------------
(* Records: properties                                                      *)

\* the calls of the behaviour so far that produced a record
Produced == { i \in 1..Len(calls) : calls[i].outcome.record # None }

RecordOf(i) == calls[i].outcome.record

Smaller(a, b) == IF a < b THEN a ELSE b

\* the futures rows of the text in source order: the holdings rows the
\* classifier takes for futures (Solactive reads rows of 6 cells or more)
SourceFutures ==
    SelectSeq(pcftext, LAMBDA r : /\ r \in HoldingRows
                                  /\ is_futures_row(r)
                                  /\ (pcftag = "solactive" => Len(r) >= 6))

\* the slots of the worksheet row that hold a futures leg, in column order
SheetSlotColumns == SelectSeq(<<6, 9>>, LAMBDA k : SlotFilled(csvrow, k))

\* the names of the futures of the source, in source order
SourceNames ==
    IF pcftag = "excel"
    THEN [k \in 1..Len(SheetSlotColumns) |-> SlotName(csvrow, SheetSlotColumns[k])]
    ELSE [k \in 1..Len(SourceFutures) |-> Strip(Cell(SourceFutures[k], 1))]

Holdings == SelectSeq(pcftext, LAMBDA r : r \in HoldingRows)

\* the lines of the text as the parsers index them
TextLines == StripSplit(pcftext)

\* the rows classified as equity: S&P Global passes over Cash / Margin rows
IsEquityRow(r) ==
    /\ Len(r) >= 3
    /\ ~is_futures_row(r)
    /\ (pcftag = "spglobal" =>
          UpperStr(Strip(r[1])) \notin { <<"C", "A", "S", "H">>, <<"M", "A", "R", "G", "I", "N">> })

\* quantity x price of a row, the quantity in column 5 and the price in
\* column 6 of the texts; nothing for a row that lacks either
RowValue(r) ==
    IF Len(r) > 6 /\ Truthy(parse_int(r[6])) /\ Truthy(parse_number(r[7]))
    THEN PyMul(parse_int(r[6]), parse_number(r[7]))
    ELSE Num(0)

RECURSIVE SumOfValues(_)
SumOfValues(rows) ==
    IF rows = <<>> THEN Num(0) ELSE PyAdd(RowValue(Head(rows)), SumOfValues(Tail(rows)))

EquitySum == SumOfValues(SelectSeq(Holdings, IsEquityRow))

\* the AUM value of the metadata row of an S&P Global text whose header line
\* names it; None when the header or the value is missing
DisclosedAum ==
    IF /\ pcftag = "spglobal"
       /\ Len(TextLines) >= 2
       /\ \E i \in 1..Len(TextLines[1]) : Contains(TextLines[1][i], <<"A", "U", "M">>)
       /\ Len(TextLines[2]) >= 6
    THEN parse_number(TextLines[2][6])
    ELSE None

\* C15: in an ICE record, and in an S&P Global record whose metadata row
\* discloses no AUM value, NAV is the cash component plus the sum of quantity
\* x price over the equity rows, futures rows adding nothing (a missing cash
\* component counts as zero, and NAV is missing when the cash component is
\* missing and the sum is not positive); in an S&P Global record whose
\* metadata row discloses an AUM value, NAV is that value.
C15_NavReconstructedOrDisclosed ==
    \A i \in Produced :
        pcftag \in {"ice", "spglobal"} =>
            IF DisclosedAum # None THEN RecordOf(i).nav = DisclosedAum
            ELSE IF RecordOf(i).cash_component # None
                 THEN RecordOf(i).nav = PyAdd(RecordOf(i).cash_component, EquitySum)
            ELSE RecordOf(i).nav = IF GreaterThanZero(EquitySum) THEN EquitySum ELSE None

\* an S&P Global text without an AUM value, with a cash component, an equity
\* row of positive value and a futures row, gave a record
C15_Witness ==
    /\ pcftag = "spglobal"
    /\ DisclosedAum = None
    /\ 1 \in Produced
    /\ RecordOf(1).cash_component # None
    /\ GreaterThanZero(EquitySum)
    /\ Len(SourceFutures) > 0
    /\ RecordOf(1).nav = PyAdd(RecordOf(1).cash_component, EquitySum)

\* the text is an S&P Global text whose column line names a market-value
\* column, the column 7 of the texts
HasMarketValueColumn ==
    /\ pcftag = "spglobal"
    /\ Len(TextLines) >= 4
    /\ Len(TextLines[4]) > 7
    /\ UpperStr(Strip(TextLines[4][8])) = <<"M", "A", "R", "K", "E", "T", " ", "V", "A", "L", "U", "E">>

\* the value a row has in the market-value column, None when it has none
ColumnValue(r) == IF Len(r) > 7 THEN parse_number(r[8]) ELSE None

\* the market value of a row: the column's value where there is one, else
\* quantity x price
VerbatimValue(r) == IF ColumnValue(r) # None THEN ColumnValue(r) ELSE RowValue(r)

RECURSIVE SumOfVerbatim(_)
SumOfVerbatim(rows) ==
    IF rows = <<>> THEN Num(0) ELSE PyAdd(VerbatimValue(Head(rows)), SumOfVerbatim(Tail(rows)))

\* the futures legs carry the value of the market-value column
FuturesLegsUseColumn(i) ==
    \A k \in 1..Len(RecordOf(i).futures_positions) :
        ColumnValue(SourceFutures[k]) # None =>
            RecordOf(i).futures_positions[k].market_value = ColumnValue(SourceFutures[k])

\* the equity market value adds up the values of the market-value column
EquityUsesColumn(i) ==
    Truthy(SumOfVerbatim(SelectSeq(Holdings, IsEquityRow))) =>
        RecordOf(i).equity_market_value = SumOfVerbatim(SelectSeq(Holdings, IsEquityRow))

\* C16: for every holdings row of an S&P Global text, equity or futures, that
\* has a value in the market-value column, the market value the parser uses
\* for the row (the leg's market value, or the row's share of the record's
\* equity market value) is the column's value and not quantity x price.
C16_MarketValueVerbatim ==
    \A i \in Produced :
        HasMarketValueColumn => FuturesLegsUseColumn(i) /\ EquityUsesColumn(i)

\* what the dialect parser chosen by the tag does with the text
DialectOutcome ==
    IF pcftag = "ice" THEN parse_ice_pcf(pcftext, EtfCode, curdate)
    ELSE IF pcftag = "solactive" THEN parse_solactive_pcf(pcftext, EtfCode, curdate)
    ELSE parse_spglobal_pcf(pcftext, EtfCode, curdate)

KnownTag == pcftag \in {"ice", "solactive", "spglobal"}

\* a table text (ICE, S&P Global) below the structural minimum
TooShort ==
    /\ pcftag \in {"ice", "spglobal"}
    /\ ~IsBlankText(pcftext)
    /\ (Len(TextLines) < 4 \/ Len(TextLines[2]) < 5)

\* C17: parse_pcf never propagates an exception: every call returns a record
\* or no record; it returns no record for an empty or whitespace-only text,
\* for an ICE or S&P Global text of fewer than 4 lines or with a metadata
\* row of fewer than 5 fields, for an unknown provider tag, and whenever the
\* dialect parser raises.
C17_NeverPropagates ==
    (pcftag # "excel" /\ calls # <<>>) =>
        /\ \A i \in 1..Len(calls) : ~calls[i].outcome.raised
        /\ (IsBlankText(pcftext) \/ TooShort \/ ~KnownTag \/ DialectOutcome.raised)
              => \A i \in 1..Len(calls) : calls[i].outcome.record = None

\* the dialect parser raised on a text of full structure, and the call
\* returned no record
C17_Witness ==
    /\ KnownTag
    /\ ~IsBlankText(pcftext)
    /\ ~TooShort
    /\ DialectOutcome.raised
    /\ Len(calls) > 0
    /\ ~calls[1].outcome.raised
    /\ calls[1].outcome.record = None

\* the text has the structure its dialect asks for, and the parser does not
\* raise on it
WellFormed == KnownTag /\ ~IsBlankText(pcftext) /\ ~TooShort /\ ~DialectOutcome.raised

\* the metadata fields of the text as written: the key-value lines of a
\* Solactive text, the second line of an ICE or S&P Global text
WrittenMeta ==
    IF pcftag = "solactive" THEN MetaAfter(TextLines, FirstBlank(TextLines) - 1)
    ELSE [ NoMeta EXCEPT !.cash = TextLines[2][3],
                         !.shares_outstanding = TextLines[2][4],
                         !.date = TextLines[2][5] ]

\* the field is written in the text and nothing can be read from it
Unparseable(field, parsed) == field # None /\ Strip(field) # <<>> /\ parsed = None

\* cash component and shares outstanding
NumbersStayNull(i) ==
    /\ Unparseable(WrittenMeta.cash, parse_number(WrittenMeta.cash))
          => RecordOf(i).cash_component = None
    /\ Unparseable(WrittenMeta.shares_outstanding, parse_int(WrittenMeta.shares_outstanding))
          => RecordOf(i).shares_outstanding = None

\* the disclosure date
DateStaysNull(i) ==
    Unparseable(WrittenMeta.date, parse_date(WrittenMeta.date)) => RecordOf(i).pcf_date = None

\* the quantity of the futures rows, in column 5 of the texts
QuantitiesStayNull(i) ==
    \A k \in 1..Len(RecordOf(i).futures_positions) :
        (Len(SourceFutures[k]) > 5
           /\ Unparseable(SourceFutures[k][6], parse_int(SourceFutures[k][6])))
            => RecordOf(i).futures_positions[k].quantity = None

\* C18: when a single field of an otherwise well-formed text cannot be parsed
\* (cash component, shares outstanding, disclosure date, a futures row's
\* quantity), the vendor parser still produces a record and the field is
\* null in it, never zero or another substitute value.
C18_DegradedFieldsStayNull ==
    (WellFormed /\ calls # <<>>) =>
        /\ Produced = 1..Len(calls)
        /\ \A i \in Produced :
              NumbersStayNull(i) /\ DateStaysNull(i) /\ QuantitiesStayNull(i)

\* C19: parse_pcf is a pure function of (text, ETF code, provider): the calls
\* of a behaviour, all made with the same arguments at any times, return
\* equal records.
C19_SameArgumentsSameRecord ==
    pcftag # "excel" =>
        \A i, j \in 1..Len(calls) : calls[i].outcome.record = calls[j].outcome.record

-----------------------------------------------------------------------------
(* Time-series store: properties                                            *)

Keys(df) == { KeyOf(df[i]) : i \in 1..Len(df) }

\* the rows of a table under a key, in the order of the table
RowsUnder(df, k) == SelectSeq(df, LAMBDA r : KeyOf(r) = k)

\* the row a batch holds for a key: the one written last
BatchRow(k) == RowsUnder(batch, k)[Len(RowsUnder(batch, k))]

\* the append_daily calls whose table the store has taken: the write to R2
\* went through, or there is no object in R2 to read instead
Taken == { i \in 1..Len(calls) : calls[i].put_ok \/ ~remote.present }

\* after the call every key of the batch maps to the row of the batch, every
\* other key of the store keeps its row, and there is no other key
OverwritesByKey(i) ==
    /\ \A k \in Keys(batch) : RowsUnder(calls[i].after, k) = <<BatchRow(k)>>
    /\ \A k \in Keys(calls[i].before) \ Keys(batch) :
          RowsUnder(calls[i].after, k) = RowsUnder(calls[i].before, k)
    /\ Keys(calls[i].after) \subseteq Keys(calls[i].before) \cup Keys(batch)

\* a call with the batch of the call before it leaves the stored rows as
\* they were
SecondCallChangesNothing(i) ==
    (i + 1) \in Taken => Range(calls[i + 1].after) = Range(calls[i].after)

\* C20: append_daily is an idempotent overwrite-by-key merge, for every store
\* (the empty store too) and every batch: after the call every key of the
\* batch maps to the batch's row, every other key of the store keeps its
\* row and no other key exists; a second call with the same batch leaves
\* the set of stored rows unchanged.
C20_IdempotentOverwriteByKey ==
    pcftag = "store" =>
        \A i \in Taken : OverwritesByKey(i) /\ SecondCallChangesNothing(i)

-----------------------------------------------------------------------------
(* ETF master: properties                                                   *)

\* the master as load_etf_master returns it
Master == load_etf_master(remote, localfile)

\* the calls whose table held the code
CallsWith(c) == { k \in 1..Len(calls) : \E i \in 1..Len(calls[k].new_df) : CodeText(calls[k].new_df[i].code) = c }

WrittenCodes == { c \in { CodeText(m) : m \in MasterCodes } : CallsWith(c) # {} }

LatestCallWith(c) == CHOOSE k \in CallsWith(c) : \A j \in CallsWith(c) : j <= k

MasterRowsOf(c) == { i \in 1..Len(Master) : CodeText(Master[i].code) = c }

\* C21: after any sequence of update_etf_master calls the master holds
\* exactly one row for every code a call wrote, and it is a row of the latest
\* call whose table held the code.
C21_OneRowPerCodeLatestWins ==
    \A c \in WrittenCodes :
        /\ Cardinality(MasterRowsOf(c)) = 1
        /\ \A i \in MasterRowsOf(c) :
              \E r \in 1..Len(calls[LatestCallWith(c)].new_df) :
                  /\ CodeText(calls[LatestCallWith(c)].new_df[r].code) = c
                  /\ calls[LatestCallWith(c)].new_df[r].category = Master[i].category

-----------------------------------------------------------------------------
(* Futures exposure: properties                                             *)

Exposed == phase = "exposed"

\* (i, k): record i of the table has a leg in futures slot k
LegsPresent ==
    { p \in (1..Len(ts.rows)) \X (1..2) : ~ts.rows[p[1]][SlotColumns[p[2]].type].isna }

\* record by record, leg 1 before leg 2
LegBefore(p, q) == p[1] < q[1] \/ (p[1] = q[1] /\ p[2] < q[2])

LegRank(p) == 1 + Cardinality({ q \in LegsPresent : LegBefore(q, p) })

RatioAsClaimed(row) ==
    IF IsFinite(row.nav) /\ row.nav[1] > 0
    THEN row.futures_ratio = FDiv(FAbs(row.market_value), row.nav)
    ELSE row.futures_ratio = Null

\* C22: compute_futures_exposure emits one row per futures leg present in a
\* record, record by record and leg 1 before leg 2; the row carries the ETF
\* code, date and NAV of its record, and its futures_ratio is
\* |market value| / NAV when the NAV is > 0 and null when the NAV is null,
\* zero or negative.
C22_OneRowPerLeg ==
    Exposed =>
        /\ ~daily.raised
        /\ Len(daily.rows) = Cardinality(LegsPresent)
        /\ \A p \in LegsPresent :
              /\ daily.rows[LegRank(p)].etf_code = ts.rows[p[1]].etf_code
              /\ daily.rows[LegRank(p)].date = ts.rows[p[1]].date
              /\ daily.rows[LegRank(p)].nav = ts.rows[p[1]].nav
              /\ daily.rows[LegRank(p)].futures_type = ts.rows[p[1]][SlotColumns[p[2]].type].text
              /\ daily.rows[LegRank(p)].market_value = ts.rows[p[1]][SlotColumns[p[2]].market_value]
              /\ RatioAsClaimed(daily.rows[LegRank(p)])

\* a record with two legs and a NAV > 0 and a record with one leg and a NAV
\* that is not > 0 were exploded into three rows, the first two with a ratio
C22_Witness ==
    /\ Exposed
    /\ Len(ts.rows) = 2
    /\ LegsPresent = { <<1, 1>>, <<1, 2>>, <<2, 1>> }
    /\ Len(daily.rows) = 3
    /\ daily.rows[1].futures_ratio # Null
    /\ daily.rows[2].futures_ratio # Null
    /\ daily.rows[2].futures_type = "NK225_MINI"
    /\ ~(IsFinite(ts.rows[2].nav) /\ ts.rows[2].nav[1] > 0)
    /\ daily.rows[3].futures_ratio = Null

\* the estimate |market value| / (|quantity| x multiplier) of a row
UnitEstimate(row) == FDiv(FAbs(row.market_value), FMul(FAbs(row.quantity), row.multiplier))

NotionalAsClaimed(row) ==
    IF UnitEstimate(row)[1] >= 100 * UnitEstimate(row)[2]
    THEN row.market_value
    ELSE FMul(row.market_value, row.multiplier)

\* the rows of the result whose leg has a quantity other than zero
RowsWithQuantity ==
    { i \in 1..Len(daily.rows) : IsFinite(daily.rows[i].quantity) /\ daily.rows[i].quantity[1] # 0
                                      /\ IsFinite(daily.rows[i].market_value) }

\* C23: for every futures leg with non-zero quantity the result of
\* compute_futures_exposure carries a notional: the market value when
\* |market value| / (|quantity| x multiplier) >= 100, the market value times
\* the multiplier otherwise.
C23_NotionalReconciled ==
    Exposed =>
        \A i \in RowsWithQuantity :
            /\ "notional" \in DOMAIN daily.rows[i]
            /\ daily.rows[i].notional = NotionalAsClaimed(daily.rows[i])

\* the column the table is short of
DroppedColumns == TableColumns \ ts.columns

\* C24: an aggregation entry point called with a non-empty table that lacks
\* one of its required columns ends in an error that names the missing column,
\* and returns no result.
C24_MissingColumnIsNamed ==
    (phase = "called" /\ ts.rows # <<>>) =>
        \A c \in DroppedColumns \cap RequiredColumns(pcftag) :
            daily.raised /\ daily.column = c

-----------------------------------------------------------------------------
(* Per-unit NAV: properties                                                 *)

\* C25: nav_per_unit is NAV / shares outstanding for every record whose NAV
\* is present, zero included, and whose shares outstanding is > 0; it is null
\* exactly when the shares outstanding is missing or not > 0 or the NAV is
\* missing.
C25_NavPerUnit ==
    phase = "frame" =>
        /\ ( /\ RecordOf(1).nav # None
             /\ RecordOf(1).shares_outstanding # None
             /\ GreaterThanZero(RecordOf(1).shares_outstanding) )
              => batch[1].nav_per_unit = TrueDiv(RecordOf(1).nav, RecordOf(1).shares_outstanding)
        /\ batch[1].nav_per_unit = None
              <=> \/ RecordOf(1).nav = None
                  \/ RecordOf(1).shares_outstanding = None
                  \/ ~GreaterThanZero(RecordOf(1).shares_outstanding)

-----------------------------------------------------------------------------
(* Rule order: properties                                                   *)

\* the rules of the option, micro, mini, banks, Core30 and REIT variants
SpecificRules ==
    { k \in 1..Len(FUTURES_PATTERNS) :
        FUTURES_PATTERNS[k].type \in { "NK225_OPTION_CALL", "NK225_OPTION_PUT", "NK225_MICRO",
                                       "NK225_MINI", "MINI_TOPIX", "TOPIX_BANKS", "TOPIX_CORE30",
                                       "TSEREIT" } }

\* C26: a name that matches the pattern of a specific-variant rule (option,
\* micro, mini, TOPIX banks, TOPIX Core30, REIT) is never classified as the
\* bare index type TOPIX or NK225.
C26_SpecificBeforeBare ==
    (Normalized /\ TextName /\ \E k \in SpecificRules : RuleMatches(k))
        => fp.futures_type \notin {"TOPIX", "NK225"}

\* C30: every contract month _extract_contract_month returns is a string of
\* four digits whose last two digits are a calendar month, 01 to 12.
C30_MonthIsCalendarMonth ==
    (Normalized /\ TextName /\ fp.contract_month # NoMonth) =>
        /\ Len(fp.contract_month) = 4
        /\ \A i \in 1..4 : fp.contract_month[i] \in Digits
        /\ Int2(SubSeq(fp.contract_month, 3, 4)) \in 1..12

-----------------------------------------------------------------------------
(* Time-series store, call after call: properties                            *)

\* what the next append_daily or load_timeseries reads
Stored == Existing(remote, localfile)

\* C27: after any sequence of append_daily calls that starts from an empty
\* store, whatever the batches hold, the stored time series has at most one
\* row per (ETF code, date) key.
C27_OneRowPerKey ==
    pcftag = "append" => \A k \in Keys(Stored) : Len(RowsUnder(Stored, k)) = 1

\* C28: with remote writes that may fail, no batch is lost: after every call
\* the table the next call reads, R2 first and the local file as fallback,
\* holds every (ETF code, date) key of every batch appended so far.
C28_NoBatchLost ==
    pcftag = "append" => \A i \in 1..Len(calls) : Keys(calls[i].new_df) \subseteq Keys(Stored)

-----------------------------------------------------------------------------
(* Two append_daily calls at once: the steps of each and their properties    *)

\* a day's table without a repeated key, as records_to_dataframe builds it
\* from one record per ETF
DayTables ==
    { b \in StoredTables(MaxBatch) : b # <<>> /\ \A k \in Keys(b) : Len(RowsUnder(b, k)) = 1 }

\* a call of append_daily before its first step
Worker(new_df) == [pc |-> "read", new_df |-> new_df, existing |-> <<>>, put_ok |-> FALSE]

\* two calls with tables on disjoint keys, on a store written by
\* save_timeseries or on the empty one
InitRace ==
    /\ ts = <<>>
    /\ cr = <<>>
    /\ phase = "race"
    /\ master = NoMaster
    /\ daily = <<>>
    /\ leg = NoLeg
    /\ fp = NoPosition
    /\ csvrow = <<>>
    /\ verdict = FALSE
    /\ pcftext = <<>>
    /\ pcftag = "race"
    /\ curdate = FirstDay
    /\ allocated = 0
    /\ batch = <<>>
    /\ \E a \in DayTables, b \in DayTables :
          /\ Keys(a) \cap Keys(b) = {}
          /\ calls = <<Worker(a), Worker(b)>>
    /\ \E t \in { u \in StoredTables(MaxStored) : IsStored(u) } :
          /\ remote \in { Absent, IF t = <<>> THEN Absent ELSE Kept(t) }
          /\ localfile = IF t = <<>> THEN Absent ELSE Kept(t)

\* what no step of a call touches
RaceRest == <<phase, csvrow, verdict, pcftext, pcftag, curdate, allocated, batch, flowVars>>

\* lines 112-120: the call reads the table in R2, else the local file
ReadStore(w) ==
    /\ pcftag = "race"
    /\ calls[w].pc = "read"
    /\ calls' = [calls EXCEPT ![w].pc = "write", ![w].existing = Existing(remote, localfile)]
    /\ UNCHANGED <<remote, localfile, RaceRest>>

\* lines 122-136 and save_timeseries 39-46: merge with the table read, write
\* the local file
WriteLocal(w) ==
    /\ pcftag = "race"
    /\ calls[w].pc = "write"
    /\ localfile' = Kept(Combined(calls[w].existing, calls[w].new_df))
    /\ calls' = [calls EXCEPT ![w].pc = "put"]
    /\ UNCHANGED <<remote, RaceRest>>

\* save_timeseries 49-51: the same bytes go to R2, or the write fails
PutRemote(w) ==
    /\ pcftag = "race"
    /\ calls[w].pc = "put"
    /\ \E put_ok \in BOOLEAN :
          /\ remote' = IF put_ok THEN Kept(Combined(calls[w].existing, calls[w].new_df)) ELSE remote
          /\ calls' = [calls EXCEPT ![w].pc = "done", ![w].put_ok = put_ok]
    /\ UNCHANGED <<localfile, RaceRest>>

NextRace == \E w \in 1..2 : ReadStore(w) \/ WriteLocal(w) \/ PutRemote(w)

SpecRace == InitRace /\ [][NextRace]_vars

\* both calls have returned, and R2 took both writes or holds nothing
BothReturned ==
    /\ pcftag = "race"
    /\ \A w \in 1..2 : calls[w].pc = "done"
    /\ (\A w \in 1..2 : calls[w].put_ok) \/ ~remote.present

\* C29: two append_daily calls on disjoint key sets that run at once, each
\* reading the store, merging its table and writing the result back, leave a
\* store with the keys of both tables, however their steps interleave.
C29_BothBatchesKept ==
    BothReturned => \A w \in 1..2 : Keys(calls[w].new_df) \subseteq Keys(Stored)

====
